---- MODULE Spec2Model ----
(***************************************************************************)
(* Model of the user directory of the login API: the in-memory database,   *)
(* the UserRepository, the UserService, the register and delete entry      *)
(* points of the REST controller and of the GraphQL resolvers, the tokens   *)
(* of jsonwebtoken and the authentication middleware.                      *)
(*                                                                         *)
(* Spec has two callers whose calls overlap; it follows the store and the  *)
(* payloads and leaves the returned tokens out.  SessionSpec has one       *)
(* client and a clock: it follows the tokens that register and login       *)
(* return and what verifying them answers as time passes.  GateSpec has    *)
(* one client that sends the protected operations over REST and GraphQL    *)
(* with and without tokens.  StartupSpec is the start-up of app.js: the    *)
(* middleware stack, the GraphQL initialisation and the first requests.    *)
(*                                                                         *)
(* Every service method is an async function.  It runs synchronously up to *)
(* its next `await`, so each action below is one such segment: the code    *)
(* between two awaits, with every database access it performs.  Concurrent *)
(* calls interleave only at the awaits.                                    *)
(*                                                                         *)
(* Two kinds of await differ in what can run during them.  The awaits on   *)
(* the repository resolve in the microtask queue: only calls that are      *)
(* running in the same turn of the event loop can take a step in between,  *)
(* and the order in which they do is left free here.  `await bcrypt.hash`  *)
(* resolves in a later turn of the event loop, which starts only when the  *)
(* microtask queue is empty, and the code after it runs alone up to its    *)
(* own end or next bcrypt call.                                            *)
(*                                                                         *)
(* Strings are sequences of one-character strings, so that toLowerCase,    *)
(* trim, the email regular expression and parseInt are computed.  The      *)
(* empty sequence stands for both an absent field and the empty string     *)
(* (both are falsy in the code).                                           *)
(***************************************************************************)
EXTENDS Integers, Sequences, FiniteSets, TLC

\* ------------------------------------------------------------------ bounds
\* Calls started in one behaviour.
MaxCalls == 4
\* Ids the database hands out in one behaviour.
MaxId == 2
\* calls the client of SessionSpec makes
MaxSession == 2
\* calls the client of GateSpec makes
MaxGate == 3

\* The callers of the service: two, so that any two calls can overlap.
Procs == {1, 2}

\* ----------------------------------------------------------------- strings
UpperChars == <<"A", "B", "C", "D", "E", "M", "O", "X", "Y", "Z">>
LowerChars == <<"a", "b", "c", "d", "e", "m", "o", "x", "y", "z">>
Digits == <<"0", "1", "2", "3", "4", "5", "6", "7", "8", "9">>

IndexOf(c, chars) ==
  IF \E i \in DOMAIN chars : chars[i] = c
  THEN CHOOSE i \in DOMAIN chars : chars[i] = c
  ELSE 0

\* String.prototype.toLowerCase
toLowerCase(s) ==
  [i \in DOMAIN s |->
     IF IndexOf(s[i], UpperChars) > 0 THEN LowerChars[IndexOf(s[i], UpperChars)] ELSE s[i]]

IsSpace(c) == c = " "

RECURSIVE trimStart(_)
trimStart(s) ==
  IF s # <<>> /\ IsSpace(Head(s)) THEN trimStart(Tail(s)) ELSE s

RECURSIVE trimEnd(_)
trimEnd(s) ==
  IF s # <<>> /\ IsSpace(s[Len(s)]) THEN trimEnd(SubSeq(s, 1, Len(s) - 1)) ELSE s

\* String.prototype.trim
trim(s) == trimEnd(trimStart(s))

\* the normalisation register and login apply: email.toLowerCase().trim()
NormEmail(s) == trim(toLowerCase(s))

\* parseInt(id) on a route or GraphQL id: the leading decimal digits, 0 for NaN
RECURSIVE parseDigits(_, _)
parseDigits(s, acc) ==
  IF s # <<>> /\ IndexOf(Head(s), Digits) > 0
  THEN parseDigits(Tail(s), 10 * acc + (IndexOf(Head(s), Digits) - 1))
  ELSE acc

NaN == 0 - 1

parseInt(s) ==
  IF trimStart(s) # <<>> /\ IndexOf(Head(trimStart(s)), Digits) > 0
  THEN parseDigits(trimStart(s), 0)
  ELSE NaN

\* ------------------------------------------------------------------- User
\* /^[^\s@]+@[^\s@]+\.[^\s@]+$/
isValidEmail(email) ==
  /\ \A i \in DOMAIN email : ~IsSpace(email[i])
  /\ Cardinality({i \in DOMAIN email : email[i] = "@"}) = 1
  /\ LET at == CHOOSE i \in DOMAIN email : email[i] = "@"
     IN /\ at > 1
        /\ \E j \in (at + 2)..(Len(email) - 1) : email[j] = "."

ErrUsername == "Username must be at least 3 characters long"
ErrEmail == "Email must have a valid format"
ErrPassword == "Password must be at least 6 characters long"

\* a validation that stops at the first violated rule
validate_FirstOnly(userData) ==
  IF userData.username = <<>> \/ Len(trim(userData.username)) < 3
  THEN <<ErrUsername>>
  ELSE IF userData.email = <<>> \/ ~isValidEmail(userData.email)
  THEN <<ErrEmail>>
  ELSE IF userData.password = <<>> \/ Len(userData.password) < 6
  THEN <<ErrPassword>>
  ELSE <<>>

\* User.validate: the list of violated rules, in the order the code pushes them
validate(userData) ==
  (IF userData.username = <<>> \/ Len(trim(userData.username)) < 3
   THEN <<ErrUsername>> ELSE <<>>)
  \o (IF userData.email = <<>> \/ ~isValidEmail(userData.email)
      THEN <<ErrEmail>> ELSE <<>>)
  \o (IF userData.password = <<>> \/ Len(userData.password) < 6
      THEN <<ErrPassword>> ELSE <<>>)

\* the User constructor
User(id, username, email, password, createdAt) ==
  [id |-> id, username |-> username, email |-> email,
   password |-> password, createdAt |-> createdAt]

\* `null` where the code holds a User
NoUser == User(0, <<>>, <<>>, <<>>, 0)

\* a projection that copies the whole record
toSafeObject_WithPassword(u) ==
  [id |-> u.id, username |-> u.username, email |-> u.email, createdAt |-> u.createdAt,
   password |-> u.password]

toSafeObject(u) ==
  [id |-> u.id, username |-> u.username, email |-> u.email, createdAt |-> u.createdAt]

NoSafe == toSafeObject(NoUser)

\* ------------------------------------------- express-validator: register
ErrUsernameChars == "Username must contain only letters, numbers and underscore"
ErrPasswordClasses ==
  "Password must contain at least one lowercase letter, one uppercase letter and one number"

isLower(c) == IndexOf(c, LowerChars) > 0
isUpper(c) == IndexOf(c, UpperChars) > 0
isDigit(c) == IndexOf(c, Digits) > 0

\* /^[a-zA-Z0-9_]+$/
matchesWord(s) ==
  /\ s # <<>>
  /\ \A i \in DOMAIN s : isLower(s[i]) \/ isUpper(s[i]) \/ isDigit(s[i]) \/ s[i] = "_"

\* /^(?=.*[a-z])(?=.*[A-Z])(?=.*\d)/
matchesClasses(s) ==
  /\ \E i \in DOMAIN s : isLower(s[i])
  /\ \E i \in DOMAIN s : isUpper(s[i])
  /\ \E i \in DOMAIN s : isDigit(s[i])

\* a dot-separated list of non-empty parts, each made of characters in ok
dottedParts(s, ok) ==
  /\ s # <<>>
  /\ s[1] # "." /\ s[Len(s)] # "."
  /\ \A i \in DOMAIN s : s[i] = "." \/ s[i] \in ok
  /\ \A i \in 1..(Len(s) - 1) : ~(s[i] = "." /\ s[i + 1] = ".")

\* the characters of a domain label and of an atom of the local part
LabelChars ==
  {LowerChars[i] : i \in DOMAIN LowerChars} \cup {UpperChars[i] : i \in DOMAIN UpperChars}
    \cup {Digits[i] : i \in DOMAIN Digits}

AtomChars == LabelChars \cup {"_"}

\* validator.js isEmail with its defaults, over the characters used here: the
\* part before the last "@" is a dotted list of atoms, the part after it a
\* domain name of at least two labels whose last one has two letters or more
isEmail(s) ==
  /\ \E i \in DOMAIN s : s[i] = "@"
  /\ LET at == CHOOSE i \in DOMAIN s :
                 s[i] = "@" /\ \A j \in DOMAIN s : s[j] = "@" => j <= i
         local == SubSeq(s, 1, at - 1)
         domain == SubSeq(s, at + 1, Len(s))
     IN /\ dottedParts(local, AtomChars)
        /\ dottedParts(domain, LabelChars)
        /\ \E d \in DOMAIN domain :
              /\ domain[d] = "."
              /\ Len(domain) - d >= 2
              /\ \A j \in (d + 1)..Len(domain) : isLower(domain[j]) \/ isUpper(domain[j])

\* validator.js normalizeEmail on an address of a domain it has no special
\* rule for: lower case
normalizeEmail(s) == toLowerCase(s)

\* validateRegister followed by validationResult: the messages of every failed
\* check of every field, and the body as the sanitizers leave it
validateRegister(body) ==
  LET username == trim(body.username)
      email == trim(body.email)
  IN [errors |->
        (IF Len(username) < 3 THEN <<ErrUsername>> ELSE <<>>)
        \o (IF ~matchesWord(username) THEN <<ErrUsernameChars>> ELSE <<>>)
        \o (IF ~isEmail(email) THEN <<ErrEmail>> ELSE <<>>)
        \o (IF Len(body.password) < 6 THEN <<ErrPassword>> ELSE <<>>)
        \o (IF ~matchesClasses(body.password) THEN <<ErrPasswordClasses>> ELSE <<>>),
      body |-> [username |-> username,
                email |-> IF isEmail(email) THEN normalizeEmail(email) ELSE email,
                password |-> body.password]]

\* ----------------------------------------------------------------- bcrypt
NoHash == <<>>

\* bcrypt.hash(password, 10): a digest from which the password is not read back
\* by the code; only bcryptCompare looks inside it
bcryptHash(password) == <<"$2a$10$", password>>

bcryptCompare(password, digest) ==
  /\ Len(digest) = 2
  /\ digest[1] = "$2a$10$"
  /\ digest[2] = password

\* ----------------------------------------------------------- jsonwebtoken
\* `this.jwtExpiresIn = ... || '30m'`, in seconds
ExpiresIn == 1800

\* `this.jwtSecret = process.env.JWT_SECRET || 'your-jwt-secret-here'`
JwtSecret == "your-jwt-secret-here"

\* the claims jwt.sign puts in the token: the payload, iat = the second of
\* the clock, exp = iat + expiresIn, iss
Claims(id, username, email, iat, expiresIn) ==
  [id |-> id, username |-> username, email |-> email,
   iat |-> iat, exp |-> iat + expiresIn, iss |-> "api-login-rest"]

NoClaims == Claims(0, <<>>, <<>>, 0, 0)

\* HS256: the signature is a function of the key and of the signed content,
\* nothing else enters it
Signature(key, payload) == [key |-> key, over |-> payload]

\* jwt.sign(payload, secret, {expiresIn, issuer}) at the time t (milliseconds)
jwtSign(id, username, email, secret, expiresIn, t) ==
  LET payload == Claims(id, username, email, t \div 1000, expiresIn)
  IN [wellFormed |-> TRUE, payload |-> payload, sig |-> Signature(secret, payload)]

\* a string that is not a JWT
Malformed == [wellFormed |-> FALSE, payload |-> NoClaims, sig |-> Signature("", NoClaims)]

NoToken == Malformed

\* jwt.verify(token, secret) at the time t: the decoded claims, or the error
jwtVerify(tok, secret, t) ==
  IF ~tok.wellFormed THEN [ok |-> FALSE, error |-> "jwt malformed", decoded |-> NoClaims]
  ELSE IF tok.sig # Signature(secret, tok.payload)
  THEN [ok |-> FALSE, error |-> "invalid signature", decoded |-> NoClaims]
  ELSE IF t \div 1000 >= tok.payload.exp
  THEN [ok |-> FALSE, error |-> "jwt expired", decoded |-> NoClaims]
  ELSE [ok |-> TRUE, error |-> "", decoded |-> tok.payload]

\* the outcome of a verification: who verified, which token, when, and the
\* answer
NoAuth == [by |-> "none", present |-> FALSE, token |-> NoToken, at |-> 0, ok |-> FALSE,
           status |-> 0, err |-> "", user |-> NoClaims]

\* ----------------------------------------------------- InMemoryDatabase
\* `users` is the Map of the database, as the sequence of its values in
\* insertion order (the order Map iteration follows).
VARIABLES users, currentId, now, calls, ncalls, issued, deleted, lastPw

\* The token side of the service: dateNow is Date.now() in milliseconds, token
\* the token the last register or login returned, minted every token issued
\* with the time it was issued at, auth the outcome of the last verification.
VARIABLES dateNow, token, minted, auth

tvars == <<dateNow, token, minted, auth>>

\* app.js: NODE_ENV, whether the module has been loaded, the middleware stack
\* of the express app in the order of the app.use / app.get calls, the stage
\* of the GraphQL initialisation, whether the HTTP server is bound to its
\* port, and the answer to the last request
VARIABLES env, loaded, stack, gql, listening, answer

avars == <<env, loaded, stack, gql, listening, answer>>

vars == <<users, currentId, now, calls, ncalls, issued, deleted, lastPw, dateNow, token, minted, auth,
          env, loaded, stack, gql, listening, answer>>

\* getNextId without the increment: `return this.currentId`
getNextId_NoIncrement(cur) == [id |-> cur, next |-> cur]

\* a counter that passes over one id at each call
getNextId_SkipOne(cur) == [id |-> cur + 1, next |-> cur + 2]

\* getNextId: `return this.currentId++`
getNextId(cur) == [id |-> cur, next |-> cur + 1]

\* Map.set: an existing key keeps its position, a new key goes last
\* a store that keeps the last saved record only
saveUser_SingleSlot(db, user) == <<user>>

saveUser(db, user) ==
  IF \E i \in DOMAIN db : db[i].id = user.id
  THEN [i \in DOMAIN db |-> IF db[i].id = user.id THEN user ELSE db[i]]
  ELSE Append(db, user)

findUserById(db, id) ==
  IF \E i \in DOMAIN db : db[i].id = id
  THEN db[CHOOSE i \in DOMAIN db : db[i].id = id]
  ELSE NoUser

\* the first user, in Map order, whose stored email is exactly `email`
findUserByEmail(db, email) ==
  IF \E i \in DOMAIN db : db[i].email = email
  THEN db[CHOOSE i \in DOMAIN db :
            /\ db[i].email = email
            /\ \A j \in 1..(i - 1) : db[j].email # email]
  ELSE NoUser

\* the first user, in Map order, whose stored username is exactly `username`
findUserByUsername(db, username) ==
  IF \E i \in DOMAIN db : db[i].username = username
  THEN db[CHOOSE i \in DOMAIN db :
            /\ db[i].username = username
            /\ \A j \in 1..(i - 1) : db[j].username # username]
  ELSE NoUser

RECURSIVE removeId(_, _)
removeId(db, id) ==
  IF db = <<>> THEN <<>>
  ELSE IF Head(db).id = id THEN removeId(Tail(db), id)
  ELSE <<Head(db)>> \o removeId(Tail(db), id)

\* a delete that reports success whether or not the key was there
dbDeleteUser_AlwaysTrue(db, id) == [db |-> removeId(db, id), deleted |-> TRUE]

\* Map.delete: the map without the key, and whether the key was there
dbDeleteUser(db, id) ==
  [db |-> removeId(db, id), deleted |-> \E i \in DOMAIN db : db[i].id = id]

getAllUsers(db) == db

\* a count read off the ids: the highest id in the map
getUserCount_HighestId(db) ==
  IF db = <<>> THEN 0
  ELSE db[CHOOSE i \in DOMAIN db : \A j \in DOMAIN db : db[j].id <= db[i].id].id

\* `this.users.size`
getUserCount(db) == Len(db)

\* --------------------------------------------------------- UserRepository
emailExists(db, email) == findUserByEmail(db, email) # NoUser

usernameExists(db, username) == findUserByUsername(db, username) # NoUser

\* UserRepository.create: takes the next id and saves, with no await between
create(db, cur, clock, userData) ==
  LET n == getNextId(cur)
      user == User(n.id, userData.username, userData.email, userData.password, clock)
  IN [db |-> saveUser(db, user), next |-> n.next, user |-> user]

\* update building the record from userData alone, without `|| existingUser.x`
merge_Overwrite(existingUser, id, userData) ==
  User(id, userData.username, userData.email, userData.password, existingUser.createdAt)

\* the User that UserRepository.update builds from the record it read
\* and the fields of userData that are truthy
merge(existingUser, id, userData) ==
  User(id,
       IF userData.username # <<>> THEN userData.username ELSE existingUser.username,
       IF userData.email # <<>> THEN userData.email ELSE existingUser.email,
       IF userData.password # <<>> THEN userData.password ELSE existingUser.password,
       existingUser.createdAt)


\* ------------------------------------------------------------ call records
\* One record per caller: the call it is making or has last made.  pc is the
\* await the call is suspended at; the other fields are the arguments and the
\* local variables of the async functions on its stack.
NoResult == [ok |-> FALSE, status |-> 0, code |-> "", err |-> <<>>, user |-> NoSafe,
             list |-> <<>>, total |-> 0]

Idle == [pc |-> "idle", op |-> "none", via |-> "svc", req |-> 0, idParam |-> <<>>, id |-> 0,
         username |-> <<>>, email |-> <<>>, password |-> <<>>, hashed |-> NoHash,
         flag |-> FALSE, ex |-> NoUser, invoked |-> FALSE, conc |-> {}, regOnly |-> FALSE,
         fresh |-> FALSE,
         res |-> NoResult]

\* a success payload carrying one user
Ok(u) == [NoResult EXCEPT !.ok = TRUE, !.user = toSafeObject(u)]

\* `throw new Error(...)`: err is the message, outermost prefix first
Fail(msg) == [NoResult EXCEPT !.err = msg]

\* error.message.includes(msg)
Includes(err, msg) == \E i \in DOMAIN err : err[i] = msg

InFlight(c) == c.pc \notin {"idle", "done"}

\* the awaits that resolve in the microtask queue
MicroPcs == {"r_email", "r_user", "l_find", "u_find", "u_email", "u_user", "u_save", "d_find"}

\* some call has a continuation in the microtask queue: the event loop does
\* not deliver a bcrypt result before the queue is empty
Draining == \E q \in Procs : calls[q].pc \in MicroPcs

\* a call takes the first caller that has no call in flight
CanStart(p) ==
  /\ ~InFlight(calls[p])
  /\ ncalls < MaxCalls
  /\ \A q \in Procs : q < p => InFlight(calls[q])

\* the callers whose call is in flight when p starts one
Others(p) == {q \in Procs \ {p} : InFlight(calls[q])}

\* p starts the call c: every call in flight overlaps it, and the results of
\* the calls that settled before it are no longer kept (regOnly: the call is
\* a register and so is every call that has overlapped it)
Begin(p, c) ==
  /\ calls' = [q \in Procs |->
                 IF q = p
                 THEN [c EXCEPT !.conc = Others(p),
                                !.regOnly = /\ c.op = "register"
                                            /\ \A o \in Others(p) : calls[o].regOnly]
                 ELSE IF InFlight(calls[q])
                 THEN [calls[q] EXCEPT !.conc = @ \cup {p},
                                       !.regOnly = @ /\ c.op = "register"]
                 ELSE Idle]
  /\ ncalls' = ncalls + 1

\* p's call moves to its next await, or ends
Step(p, c) == calls' = [calls EXCEPT ![p] = c] /\ ncalls' = ncalls

Finish(c, res) == [c EXCEPT !.pc = "done", !.res = res, !.flag = FALSE, !.ex = NoUser,
                            !.hashed = NoHash]

\* ---------------------------------------------------- UserService.register
\* whether some live user holds the username (as given or trimmed) or the
\* normalised email of userData: recorded when a register call starts
Held(db, userData) ==
  \E i \in DOMAIN db :
    \/ db[i].username \in {userData.username, trim(userData.username)}
    \/ NormEmail(db[i].email) = NormEmail(userData.email)

\* register handing the email to create as it was given
registerRecord_RawEmail(userData, hashedPassword) ==
  [username |-> trim(userData.username),
   email |-> userData.email,
   password |-> hashedPassword]

\* the record register hands to UserRepository.create
registerRecord(userData, hashedPassword) ==
  [username |-> trim(userData.username),
   email |-> trim(toLowerCase(userData.email)),
   password |-> hashedPassword]

\* what the entry point the register call came through answers, given the
\* service's outcome: the controller sets a status and an error code, the
\* resolver rethrows
RegisterAnswer(via, res) ==
  IF via = "rest"
  THEN IF res.ok THEN [res EXCEPT !.status = 201]
       ELSE [res EXCEPT !.status = 400, !.code = "REGISTRATION_FAILED"]
  ELSE IF via = "gql"
  THEN IF res.ok THEN res
       ELSE IF Includes(res.err, "Email is already in use")
       THEN [res EXCEPT !.code = "UserInputError", !.err = <<"Email is already in use">>]
       ELSE IF Includes(res.err, "Username is already in use")
       THEN [res EXCEPT !.code = "UserInputError", !.err = <<"Username is already in use">>]
       ELSE [res EXCEPT !.code = "Error", !.err = <<"Registration failed">> \o res.err]
  ELSE res

\* UserService.register(userData), called through via: validation and the
\* email lookup
StartRegisterVia(p, via, userData) ==
  /\ CanStart(p)
  /\ currentId + Cardinality({q \in Procs : calls[q].op = "register" /\ InFlight(calls[q])})
       <= MaxId
  /\ LET c == [Idle EXCEPT !.op = "register", !.via = via, !.invoked = TRUE,
                           !.username = userData.username, !.email = userData.email,
                           !.password = userData.password,
                           !.fresh = ~Held(users, userData)]
         errors == validate(userData)
     IN IF errors # <<>>
        THEN Begin(p, Finish(c, RegisterAnswer(via,
                        Fail(<<"Error registering user", "Invalid data">> \o errors))))
        ELSE Begin(p, [c EXCEPT !.pc = "r_email",
                                !.flag = emailExists(users, userData.email)])
  /\ UNCHANGED <<users, currentId, now, issued, deleted, lastPw>>

StartRegister(p, userData) == StartRegisterVia(p, "svc", userData)

\* after `await emailExists`: the email verdict, then the username lookup
RegisterAfterEmail(p) ==
  /\ calls[p].pc = "r_email"
  /\ LET c == calls[p]
     IN IF c.flag
        THEN Step(p, Finish(c, RegisterAnswer(c.via,
                       Fail(<<"Error registering user", "Email is already in use">>))))
        ELSE Step(p, [c EXCEPT !.pc = "r_user",
                               !.flag = usernameExists(users, c.username)])
  /\ UNCHANGED <<users, currentId, now, issued, deleted, lastPw>>

\* after `await usernameExists`: the username verdict, then bcrypt.hash starts
RegisterAfterUsername(p) ==
  /\ calls[p].pc = "r_user"
  /\ LET c == calls[p]
     IN IF c.flag
        THEN Step(p, Finish(c, RegisterAnswer(c.via,
                       Fail(<<"Error registering user", "Username is already in use">>))))
        ELSE Step(p, [c EXCEPT !.pc = "r_hash", !.flag = FALSE])
  /\ UNCHANGED <<users, currentId, now, issued, deleted, lastPw>>

\* after `await bcrypt.hash`: UserRepository.create, then the result
RegisterAfterHash(p) ==
  /\ calls[p].pc = "r_hash"
  /\ ~Draining
  /\ LET c == calls[p]
         r == create(users, currentId, now,
                     registerRecord([username |-> c.username, email |-> c.email],
                                    bcryptHash(c.password)))
     IN /\ users' = r.db
        /\ currentId' = r.next
        /\ now' = now + 1
        /\ issued' = Append(issued, r.user.id)
        /\ lastPw' = [lastPw EXCEPT ![r.user.id] = c.password]
        /\ Step(p, Finish(c, RegisterAnswer(c.via, Ok(r.user))))
  /\ UNCHANGED deleted

\* ------------------------------------------------ UserController.register
\* POST /api/auth/register: the request body goes through validateRegister;
\* the controller answers 400 with the list when a check failed and calls the
\* service with the sanitized body otherwise
RestRegister(p, body) ==
  LET v == validateRegister(body)
      c == [Idle EXCEPT !.op = "register", !.via = "rest",
                        !.username = body.username, !.email = body.email,
                        !.password = body.password]
  IN IF v.errors # <<>>
     THEN /\ CanStart(p)
          /\ Begin(p, Finish(c, [Fail(<<"Invalid input data">> \o v.errors)
                                   EXCEPT !.status = 400]))
          /\ UNCHANGED <<users, currentId, now, issued, deleted, lastPw>>
     ELSE StartRegisterVia(p, "rest", v.body)

\* --------------------------------------------- GraphQL Mutation.register
\* the resolver runs User.validate itself before it calls the service; the
\* error it throws is caught by its own catch and rethrown
GqlRegister(p, input) ==
  LET errors == validate(input)
      c == [Idle EXCEPT !.op = "register", !.via = "gql",
                        !.username = input.username, !.email = input.email,
                        !.password = input.password]
  IN IF errors # <<>>
     THEN /\ CanStart(p)
          /\ Begin(p, Finish(c, RegisterAnswer("gql", Fail(<<"Invalid input">> \o errors))))
          /\ UNCHANGED <<users, currentId, now, issued, deleted, lastPw>>
     ELSE StartRegisterVia(p, "gql", input)

\* ------------------------------------------------------- UserService.login
\* `findByEmail(credentials.email.toLowerCase().trim())`
loginLookup(db, credentials) ==
  findUserByEmail(db, trim(toLowerCase(credentials.email)))

\* login telling an unknown email apart
LoginNoUser_Distinct == "User not found"

\* the message login throws when the email is not found
LoginNoUser == "Invalid credentials"

\* the message login throws when bcrypt.compare says no
LoginBadPassword == "Invalid credentials"

\* what login returns or throws once it holds the record it looked up
loginResult(user, credentials) ==
  IF user = NoUser THEN Fail(<<"Error during login", LoginNoUser>>)
  ELSE IF ~bcryptCompare(credentials.password, user.password)
  THEN Fail(<<"Error during login", LoginBadPassword>>)
  ELSE Ok(user)

StartLogin(p, credentials) ==
  /\ CanStart(p)
  /\ LET c == [Idle EXCEPT !.op = "login", !.invoked = TRUE,
                           !.email = credentials.email, !.password = credentials.password]
     IN IF credentials.email = <<>> \/ credentials.password = <<>>
        THEN Begin(p, Finish(c, Fail(<<"Error during login", "Email and password are required">>)))
        ELSE Begin(p, [c EXCEPT !.pc = "l_find", !.ex = loginLookup(users, credentials)])
  /\ UNCHANGED <<users, currentId, now, issued, deleted, lastPw>>

\* after `await findByEmail` and, when a user was found, `await bcrypt.compare`:
\* neither continuation reads the database.  flag keeps whether a user was found.
LoginAfterFind(p) ==
  /\ calls[p].pc = "l_find"
  /\ LET c == calls[p]
     IN Step(p, [Finish(c, loginResult(c.ex, [email |-> c.email, password |-> c.password]))
                   EXCEPT !.flag = (c.ex # NoUser)])
  /\ UNCHANGED <<users, currentId, now, issued, deleted, lastPw>>

\* ------------------------------------- UserService.generateToken, verifyToken
\* a service configured as config.js is: jwt.expiresIn '24h'
generateToken_ConfigExpiry(user, t) ==
  jwtSign(user.id, user.username, user.email, JwtSecret, 86400, t)

\* generateToken(user) at the time t
generateToken(user, t) ==
  jwtSign(user.id, user.username, user.email, JwtSecret, ExpiresIn, t)

\* verifyToken(tok) at the time t: the decoded claims, or the one error the
\* catch block throws whatever jwt.verify threw
verifyToken(tok, t) ==
  LET r == jwtVerify(tok, JwtSecret, t)
  IN IF r.ok
     THEN [NoAuth EXCEPT !.by = "verifyToken", !.token = tok, !.at = t, !.ok = TRUE,
                         !.user = r.decoded]
     ELSE [NoAuth EXCEPT !.by = "verifyToken", !.token = tok, !.at = t,
                         !.err = "Invalid or expired token"]

\* the request header: no Authorization header, or `Bearer <token>`
NoHeader == [present |-> FALSE, token |-> NoToken]

Bearer(tok) == [present |-> TRUE, token |-> tok]

\* a middleware that decodes the token without verifying it
authenticateToken_Decode(header, t) ==
  IF ~header.present
  THEN [NoAuth EXCEPT !.by = "authenticateToken", !.at = t, !.status = 401,
                      !.err = "Access token required"]
  ELSE IF header.token.wellFormed
  THEN [NoAuth EXCEPT !.by = "authenticateToken", !.present = TRUE,
                      !.token = header.token, !.at = t,
                      !.ok = TRUE, !.user = header.token.payload]
  ELSE [NoAuth EXCEPT !.by = "authenticateToken", !.present = TRUE,
                      !.token = header.token, !.at = t,
                      !.status = 403, !.err = "Invalid or expired token"]

\* the authenticateToken middleware at the time t: 401 without a token, 403
\* when jwt.verify fails, else req.user = the decoded claims and next()
authenticateToken(header, t) ==
  IF ~header.present
  THEN [NoAuth EXCEPT !.by = "authenticateToken", !.at = t, !.status = 401,
                      !.err = "Access token required"]
  ELSE LET r == jwtVerify(header.token, JwtSecret, t)
       IN IF r.ok
          THEN [NoAuth EXCEPT !.by = "authenticateToken", !.present = TRUE,
                              !.token = header.token, !.at = t,
                              !.ok = TRUE, !.user = r.decoded]
          ELSE [NoAuth EXCEPT !.by = "authenticateToken", !.present = TRUE,
                              !.token = header.token, !.at = t,
                              !.status = 403, !.err = "Invalid or expired token"]

\* the end of register and of login: `const token = this.generateToken(user)`
\* when the call p has just ended succeeded, and no token when it failed
Mint(p) ==
  /\ token' = IF calls'[p].res.ok THEN generateToken(calls'[p].res.user, dateNow) ELSE NoToken
  /\ minted' = IF calls'[p].res.ok THEN minted \cup {[token |-> token', at |-> dateNow]}
               ELSE minted
  /\ auth' = NoAuth
  /\ UNCHANGED <<dateNow, avars>>

\* a step of a call that returns no token
NoMint == token' = NoToken /\ auth' = NoAuth /\ UNCHANGED <<dateNow, minted, avars>>

\* the tokens a client can present: those it was given, one of those re-signed
\* with another key, one of those with its payload edited, and a string that
\* is not a token
Forged(tok) == [tok EXCEPT !.sig = Signature("another-secret", tok.payload)]

Tampered(tok) == [tok EXCEPT !.payload.id = @ + 1]

Presented ==
  {m.token : m \in minted} \cup {Forged(m.token) : m \in minted}
    \cup {Tampered(m.token) : m \in minted} \cup {Malformed}

\* userService.verifyToken(tok) now
VerifyToken(tok) ==
  /\ auth' = verifyToken(tok, dateNow)
  /\ token' = NoToken
  /\ UNCHANGED <<users, currentId, now, calls, ncalls, issued, deleted, lastPw, dateNow, minted>>
  /\ UNCHANGED avars

\* a request to a protected route now
AuthenticateToken(header) ==
  /\ auth' = authenticateToken(header, dateNow)
  /\ token' = NoToken
  /\ UNCHANGED <<users, currentId, now, calls, ncalls, issued, deleted, lastPw, dateNow, minted>>
  /\ UNCHANGED avars

\* Date.now() moves on to t
Tick(t) ==
  /\ t > dateNow
  /\ dateNow' = t
  /\ token' = NoToken
  /\ auth' = NoAuth
  /\ UNCHANGED <<users, currentId, now, calls, ncalls, issued, deleted, lastPw, minted>>
  /\ UNCHANGED avars

\* --------------------------------------------- UserService.getUserById etc.
\* getUserById, getAllUsers and getStats read the database in their first
\* segment and touch neither it nor their arguments after the await, so the
\* read and the result are one action.
getUserByIdResult(db, id) ==
  IF findUserById(db, id) = NoUser
  THEN Fail(<<"Error fetching user", "User not found">>)
  ELSE Ok(findUserById(db, id))

getAllUsersResult(db) ==
  [NoResult EXCEPT !.ok = TRUE, !.list = [i \in DOMAIN getAllUsers(db) |-> toSafeObject(getAllUsers(db)[i])]]

getStatsResult(db) == [NoResult EXCEPT !.ok = TRUE, !.total = getUserCount(db)]

GetUserById(p, id) ==
  /\ CanStart(p)
  /\ Begin(p, Finish([Idle EXCEPT !.op = "getUserById", !.invoked = TRUE, !.id = id],
                     getUserByIdResult(users, id)))
  /\ UNCHANGED <<users, currentId, now, issued, deleted, lastPw>>

GetAllUsers(p) ==
  /\ CanStart(p)
  /\ Begin(p, Finish([Idle EXCEPT !.op = "getAllUsers", !.invoked = TRUE], getAllUsersResult(users)))
  /\ UNCHANGED <<users, currentId, now, issued, deleted, lastPw>>

GetStats(p) ==
  /\ CanStart(p)
  /\ Begin(p, Finish([Idle EXCEPT !.op = "getStats", !.invoked = TRUE], getStatsResult(users)))
  /\ UNCHANGED <<users, currentId, now, issued, deleted, lastPw>>

\* ------------------------------------------- UserService.updateUserProfile
\* The call runs on from one check to the next without suspending when a
\* check is skipped, so the continuations are chained: each operator is the
\* code from one `if` of updateUserProfile to the next await.

\* `await this.userRepository.update(id, updateData)`: update reads the record
\* again (findById) and suspends before it saves
UpdToSave(db, c) == [c EXCEPT !.pc = "u_save", !.flag = FALSE, !.ex = findUserById(db, c.id)]

\* `if (updateData.password)`: bcrypt.hash, else straight to update
UpdToPassword(db, c) ==
  IF c.password # <<>>
  THEN [c EXCEPT !.pc = "u_hash", !.flag = FALSE, !.ex = NoUser]
  ELSE UpdToSave(db, c)

\* `if (updateData.username && updateData.username !== existingUser.username)`
UpdToUsername(db, c) ==
  IF c.username # <<>> /\ c.username # c.ex.username
  THEN [c EXCEPT !.pc = "u_user", !.flag = usernameExists(db, c.username)]
  ELSE UpdToPassword(db, c)

\* `if (updateData.email && updateData.email !== existingUser.email)`
UpdToEmail(db, c) ==
  IF c.email # <<>> /\ c.email # c.ex.email
  THEN [c EXCEPT !.pc = "u_email", !.flag = emailExists(db, c.email)]
  ELSE UpdToUsername(db, c)

\* updateUserProfile(id, updateData), called through the entry point `via`
StartUpdateVia(p, via, id, updateData) ==
  /\ CanStart(p)
  /\ Begin(p, [Idle EXCEPT !.op = "updateUserProfile", !.via = via, !.invoked = TRUE, !.id = id,
                           !.req = IF via = "svc" THEN 0 ELSE id,
                           !.username = updateData.username, !.email = updateData.email,
                           !.password = updateData.password,
                           !.pc = "u_find", !.ex = findUserById(users, id)])
  /\ UNCHANGED <<users, currentId, now, issued, deleted, lastPw>>

StartUpdate(p, id, updateData) == StartUpdateVia(p, "svc", id, updateData)

\* what the entry point the call came through answers, given the service's
\* outcome: UserController.updateProfile sets a status and an error code,
\* Mutation.updateProfile rethrows the two conflicts as they are and wraps
\* every other error
UpdateAnswer(via, res) ==
  IF via = "rest"
  THEN IF res.ok THEN [res EXCEPT !.status = 200]
       ELSE [res EXCEPT !.status = 400, !.code = "UPDATE_FAILED"]
  ELSE IF via = "gql"
  THEN IF res.ok THEN res
       ELSE IF Includes(res.err, "Email is already in use")
       THEN [res EXCEPT !.code = "UserInputError", !.err = <<"Email is already in use">>]
       ELSE IF Includes(res.err, "Username is already in use")
       THEN [res EXCEPT !.code = "UserInputError", !.err = <<"Username is already in use">>]
       ELSE [res EXCEPT !.code = "Error", !.err = <<"Error updating profile">> \o res.err]
  ELSE res

\* after `await findById`
UpdateAfterFind(p) ==
  /\ calls[p].pc = "u_find"
  /\ LET c == calls[p]
     IN IF c.ex = NoUser
        THEN Step(p, Finish(c, UpdateAnswer(c.via, Fail(<<"Error updating user", "User not found">>))))
        ELSE Step(p, UpdToEmail(users, c))
  /\ UNCHANGED <<users, currentId, now, issued, deleted, lastPw>>

\* after `await emailExists`
UpdateAfterEmail(p) ==
  /\ calls[p].pc = "u_email"
  /\ LET c == calls[p]
     IN IF c.flag
        THEN Step(p, Finish(c, UpdateAnswer(c.via,
                         Fail(<<"Error updating user", "Email is already in use">>))))
        ELSE Step(p, UpdToUsername(users, c))
  /\ UNCHANGED <<users, currentId, now, issued, deleted, lastPw>>

\* after `await usernameExists`
UpdateAfterUsername(p) ==
  /\ calls[p].pc = "u_user"
  /\ LET c == calls[p]
     IN IF c.flag
        THEN Step(p, Finish(c, UpdateAnswer(c.via,
                         Fail(<<"Error updating user", "Username is already in use">>))))
        ELSE Step(p, UpdToPassword(users, c))
  /\ UNCHANGED <<users, currentId, now, issued, deleted, lastPw>>

\* the end of UserRepository.update, after its `await findById`: merge into
\* the record that was read (c.ex) and save
SaveUpdate(p, c) ==
  LET updatedUser == merge(c.ex, c.id, [username |-> c.username, email |-> c.email,
                                        password |-> c.hashed])
  IN IF c.ex = NoUser
     THEN /\ Step(p, Finish(c, UpdateAnswer(c.via,
                      Fail(<<"Error updating user", "Erro ao atualizar usuario",
                             "Usuario nao encontrado">>))))
          /\ UNCHANGED <<users, lastPw>>
     ELSE /\ users' = saveUser(users, updatedUser)
          /\ lastPw' = IF c.password # <<>> THEN [lastPw EXCEPT ![c.id] = c.password]
                       ELSE lastPw
          /\ Step(p, Finish(c, UpdateAnswer(c.via, Ok(updatedUser))))

\* after `await bcrypt.hash`: updateData.password is now the digest;
\* UserRepository.update reads the record, and its continuation saves it in
\* the same turn of the event loop
UpdateAfterHash(p) ==
  /\ calls[p].pc = "u_hash"
  /\ ~Draining
  /\ SaveUpdate(p, UpdToSave(users, [calls[p] EXCEPT !.hashed = bcryptHash(calls[p].password)]))
  /\ UNCHANGED <<currentId, now, issued, deleted>>

\* a profile update without a password: after the `await findById` of
\* UserRepository.update
UpdateSave(p) ==
  /\ calls[p].pc = "u_save"
  /\ SaveUpdate(p, calls[p])
  /\ UNCHANGED <<currentId, now, issued, deleted>>

\* -------------------------------------------------- UserService.deleteUser
\* UserRepository.delete reads the record (findById) and suspends
\* (fresh keeps whether the record was there when the call started)
ToDelete(db, c) ==
  [c EXCEPT !.pc = "d_find", !.invoked = TRUE, !.ex = findUserById(db, c.id),
            !.fresh = findUserById(db, c.id) # NoUser]

StartDelete(p, id) ==
  /\ CanStart(p)
  /\ Begin(p, ToDelete(users, [Idle EXCEPT !.op = "deleteUser", !.id = id]))
  /\ UNCHANGED <<users, currentId, now, issued, deleted, lastPw>>

\* what the entry point the call came through answers, given the service's
\* outcome: the controller sets a status and an error code, the resolver
\* rethrows
DeleteAnswer(via, res) ==
  IF via = "rest"
  THEN IF res.ok THEN [res EXCEPT !.status = 200]
       ELSE [res EXCEPT !.status = 404, !.code = "DELETE_FAILED"]
  ELSE IF via = "gql"
  THEN IF res.ok THEN res
       ELSE IF Includes(res.err, "User not found")
       THEN [res EXCEPT !.code = "Error", !.err = <<"User not found">>]
       ELSE [res EXCEPT !.code = "Error", !.err = <<"Error deleting user">> \o res.err]
  ELSE res

\* after the `await findById` of UserRepository.delete
DeleteAfterFind(p) ==
  /\ calls[p].pc = "d_find"
  /\ LET c == calls[p]
         r == dbDeleteUser(users, c.id)
     IN IF c.ex = NoUser
        THEN /\ Step(p, Finish(c, DeleteAnswer(c.via,
                          Fail(<<"Error deleting user", "Erro ao remover usuario",
                                 "Usuario nao encontrado">>))))
             /\ UNCHANGED <<users, deleted>>
        ELSE /\ users' = r.db
             /\ IF r.deleted
                THEN /\ Step(p, Finish(c, DeleteAnswer(c.via, Ok(c.ex))))
                     /\ deleted' = deleted \cup {c.id}
                ELSE /\ Step(p, Finish(c, DeleteAnswer(c.via,
                                  Fail(<<"Error deleting user", "User not found">>))))
                     /\ UNCHANGED deleted
  /\ UNCHANGED <<currentId, now, issued, lastPw>>

\* ------------------------------------------------ UserController.deleteUser
\* `userId === req.user.id`
RestIsSelf(userId, reqUserId) == userId = reqUserId

\* DELETE /api/users/:id, for a request the authentication middleware let
\* through with req.user.id = reqUserId
RestDeleteUser(p, reqUserId, idParam) ==
  /\ CanStart(p)
  /\ LET userId == parseInt(idParam)
         c == [Idle EXCEPT !.op = "deleteUser", !.via = "rest", !.req = reqUserId,
                           !.idParam = idParam, !.id = userId]
     IN IF userId = NaN
        THEN Begin(p, Finish(c, [Fail(<<"User ID must be a valid number">>)
                                   EXCEPT !.status = 400, !.code = "INVALID_USER_ID"]))
        ELSE IF RestIsSelf(userId, reqUserId)
        THEN Begin(p, Finish(c, [Fail(<<"Cannot delete your own user account">>)
                                   EXCEPT !.status = 400, !.code = "SELF_DELETE_NOT_ALLOWED"]))
        ELSE Begin(p, ToDelete(users, c))
  /\ UNCHANGED <<users, currentId, now, issued, deleted, lastPw>>

\* --------------------------------------------- GraphQL Mutation.deleteUser
\* `currentUser.id === id`: the number against the id string, never equal
GqlIsSelf_Unparsed(userIdToDelete, currentUserId) == FALSE

\* `currentUser.id === userIdToDelete`
GqlIsSelf(userIdToDelete, currentUserId) == currentUserId = userIdToDelete

\* deleteUser(id), for a context whose token verified: context.user.id = currentUserId
GqlDeleteUser(p, currentUserId, idParam) ==
  /\ CanStart(p)
  /\ LET userIdToDelete == parseInt(idParam)
         c == [Idle EXCEPT !.op = "deleteUser", !.via = "gql", !.req = currentUserId,
                           !.idParam = idParam, !.id = userIdToDelete]
     IN IF userIdToDelete = NaN
        THEN Begin(p, Finish(c, [Fail(<<"Invalid user ID">>) EXCEPT !.code = "Error"]))
        ELSE IF GqlIsSelf(userIdToDelete, currentUserId)
        THEN Begin(p, Finish(c, [Fail(<<"Cannot delete your own account">>)
                                   EXCEPT !.code = "ForbiddenError"]))
        ELSE Begin(p, ToDelete(users, c))
  /\ UNCHANGED <<users, currentId, now, issued, deleted, lastPw>>


\* -------------------------------------- UserController: the other handlers
\* a handler that answers in the step it is called in
Answer(p, c, res) ==
  /\ CanStart(p)
  /\ Begin(p, Finish(c, res))
  /\ UNCHANGED <<users, currentId, now, issued, deleted, lastPw>>

\* the controller's answer to a user lookup: 200, or 404 USER_NOT_FOUND
RestUserAnswer(res) ==
  IF res.ok THEN [res EXCEPT !.status = 200]
  ELSE [res EXCEPT !.status = 404, !.code = "USER_NOT_FOUND"]

\* GET /api/users/profile, with req.user.id = reqUserId
RestGetProfile(p, reqUserId) ==
  Answer(p, [Idle EXCEPT !.op = "getProfile", !.via = "rest", !.req = reqUserId,
                         !.id = reqUserId, !.invoked = TRUE],
         RestUserAnswer(getUserByIdResult(users, reqUserId)))

\* GET /api/users
RestGetAllUsers(p, reqUserId) ==
  Answer(p, [Idle EXCEPT !.op = "getAllUsers", !.via = "rest", !.req = reqUserId,
                         !.invoked = TRUE],
         [getAllUsersResult(users) EXCEPT !.status = 200])

\* GET /api/users/:id
RestGetUserById(p, reqUserId, idParam) ==
  LET userId == parseInt(idParam)
      c == [Idle EXCEPT !.op = "getUserById", !.via = "rest", !.req = reqUserId,
                        !.idParam = idParam, !.id = userId]
  IN IF userId = NaN
     THEN Answer(p, c, [Fail(<<"User ID must be a valid number">>)
                          EXCEPT !.status = 400, !.code = "INVALID_USER_ID"])
     ELSE Answer(p, [c EXCEPT !.invoked = TRUE],
                 RestUserAnswer(getUserByIdResult(users, userId)))

\* GET /api/stats
RestGetStats(p, reqUserId) ==
  Answer(p, [Idle EXCEPT !.op = "getStats", !.via = "rest", !.req = reqUserId,
                         !.invoked = TRUE],
         [getStatsResult(users) EXCEPT !.status = 200])

\* validateUpdateProfile: every field is optional (an absent field is the
\* empty sequence); the sanitizers write the trimmed username and the
\* normalised email back into req.body
validateUpdateProfile(body) ==
  LET username == trim(body.username)
      email == trim(body.email)
  IN [errors |->
        (IF body.username # <<>> /\ Len(username) < 3 THEN <<ErrUsername>> ELSE <<>>)
        \o (IF body.username # <<>> /\ ~matchesWord(username)
            THEN <<ErrUsernameChars>> ELSE <<>>)
        \o (IF body.email # <<>> /\ ~isEmail(email) THEN <<ErrEmail>> ELSE <<>>)
        \o (IF body.password # <<>> /\ Len(body.password) < 6 THEN <<ErrPassword>> ELSE <<>>)
        \o (IF body.password # <<>> /\ ~matchesClasses(body.password)
            THEN <<ErrPasswordClasses>> ELSE <<>>),
      body |-> [username |-> username,
                email |-> IF isEmail(email) THEN normalizeEmail(email) ELSE email,
                password |-> body.password]]

\* PUT /api/users/profile
RestUpdateProfile(p, reqUserId, body) ==
  LET v == validateUpdateProfile(body)
      c == [Idle EXCEPT !.op = "updateUserProfile", !.via = "rest", !.req = reqUserId,
                        !.id = reqUserId, !.username = body.username, !.email = body.email,
                        !.password = body.password]
  IN IF v.errors # <<>>
     THEN Answer(p, c, [Fail(<<"Invalid input data">> \o v.errors) EXCEPT !.status = 400])
     ELSE StartUpdateVia(p, "rest", reqUserId, v.body)

\* ------------------------------------------ GraphQL: the other resolvers
\* Query.me, for a context whose token verified
GqlMe(p, currentUserId) ==
  LET r == getUserByIdResult(users, currentUserId)
  IN Answer(p, [Idle EXCEPT !.op = "me", !.via = "gql", !.req = currentUserId,
                            !.id = currentUserId, !.invoked = TRUE],
            IF r.ok THEN r
            ELSE [r EXCEPT !.code = "Error", !.err = <<"Error fetching profile">> \o r.err])

\* Query.users
GqlUsers(p, currentUserId) ==
  Answer(p, [Idle EXCEPT !.op = "getAllUsers", !.via = "gql", !.req = currentUserId,
                         !.invoked = TRUE],
         getAllUsersResult(users))

\* Query.user(id)
GqlUser(p, currentUserId, idParam) ==
  LET userId == parseInt(idParam)
      c == [Idle EXCEPT !.op = "getUserById", !.via = "gql", !.req = currentUserId,
                        !.idParam = idParam, !.id = userId]
      r == getUserByIdResult(users, userId)
  IN IF userId = NaN
     THEN Answer(p, c, [Fail(<<"Invalid user ID">>) EXCEPT !.code = "Error"])
     ELSE Answer(p, [c EXCEPT !.invoked = TRUE],
                 IF r.ok THEN r
                 ELSE IF Includes(r.err, "User not found")
                 THEN [r EXCEPT !.code = "Error", !.err = <<"User not found">>]
                 ELSE [r EXCEPT !.code = "Error", !.err = <<"Error fetching user">> \o r.err])

\* Query.stats
GqlStats(p, currentUserId) ==
  Answer(p, [Idle EXCEPT !.op = "getStats", !.via = "gql", !.req = currentUserId,
                         !.invoked = TRUE],
         getStatsResult(users))

\* Mutation.updateProfile: only a non-blank username and a non-blank email
\* are passed on, trimmed; each is checked with User.validate on a record
\* whose other fields are dummies, keeping the errors about that field
GqlUpdateProfile(p, currentUserId, input) ==
  LET username == IF trim(input.username) # <<>> THEN trim(input.username) ELSE <<>>
      email == IF trim(input.email) # <<>> THEN trim(input.email) ELSE <<>>
      dummyEmail == <<"d", "@", "t", ".", "c", "o">>
      dummyName == <<"d", "u", "m">>
      dummyPw == <<"d", "u", "m", "1", "2", "3">>
      usernameErrors ==
        IF username = <<>> THEN <<>>
        ELSE SelectSeq(validate([username |-> username, email |-> dummyEmail,
                                 password |-> dummyPw]),
                       LAMBDA e : e = ErrUsername)
      emailErrors ==
        IF email = <<>> THEN <<>>
        ELSE SelectSeq(validate([username |-> dummyName, email |-> email,
                                 password |-> dummyPw]),
                       LAMBDA e : e = ErrEmail)
      c == [Idle EXCEPT !.op = "updateUserProfile", !.via = "gql", !.req = currentUserId,
                        !.id = currentUserId, !.username = input.username,
                        !.email = input.email]
  IN IF username = <<>> /\ email = <<>>
     THEN Answer(p, c, UpdateAnswer("gql", Fail(<<"No valid fields to update">>)))
     ELSE IF usernameErrors # <<>>
     THEN Answer(p, c, UpdateAnswer("gql", Fail(<<"Invalid input">> \o usernameErrors)))
     ELSE IF emailErrors # <<>>
     THEN Answer(p, c, UpdateAnswer("gql", Fail(<<"Invalid input">> \o emailErrors)))
     ELSE StartUpdateVia(p, "gql", currentUserId,
                         [username |-> username, email |-> email, password |-> <<>>])

\* ------------------------------------------------------------------ inputs
Bob == <<"b", "o", "b">>
BobPadded == <<" ", "b", "o", "b">>
Amy == <<"a", "m", "y">>
Ab == <<"a", "b">>

MailA == <<"a", "@", "x", ".", "c">>
MailAUpper == <<"A", "@", "x", ".", "c">>
MailAPadded == <<" ", "a", "@", "x", ".", "c">>
MailB == <<"b", "@", "x", ".", "c">>
MailBad == <<"b", "a", "d">>

Pw1 == <<"A", "b", "c", "d", "e", "1">>
Pw2 == <<"X", "y", "z", "d", "e", "2">>
PwShort == <<"1", "2", "3">>

\* Registration inputs: two whose emails differ only in case, two whose
\* usernames differ only in padding, and one that breaks every rule.
BobDot == <<"b", ".", "o", "b">>
MailACo == <<"a", "@", "x", ".", "c", "o">>
MailBCo == <<"b", "@", "x", ".", "c", "o">>
PwWeak == <<"a", "b", "c", "d", "e", "m">>

\* what the register entry points are sent: two valid inputs, one whose
\* username has a dot, one whose password is all lower case, and inputs that
\* break one, two and three of the rules of User.validate
EntryRegisterInputs ==
  {[username |-> Bob, email |-> MailBCo, password |-> Pw1],
   [username |-> BobDot, email |-> MailBCo, password |-> Pw1],
   [username |-> Amy, email |-> MailACo, password |-> PwWeak],
   [username |-> Ab, email |-> MailBCo, password |-> Pw1],
   [username |-> Bob, email |-> MailBad, password |-> PwShort],
   [username |-> Ab, email |-> MailBad, password |-> PwShort]}

EntryLoginInputs ==
  {[email |-> MailBCo, password |-> Pw1],
   [email |-> MailACo, password |-> PwWeak],
   [email |-> MailBCo, password |-> Pw2]}

\* readings of Date.now() in milliseconds: within the first second, the next
\* second, and around thirty minutes later
ClockValues == {0, 900, 1000, 1800000, 1800900}

RegisterInputs ==
  { [username |-> Bob, email |-> MailA, password |-> Pw1],
    [username |-> Amy, email |-> MailAUpper, password |-> Pw1],
    [username |-> BobPadded, email |-> MailB, password |-> Pw2],
    [username |-> Ab, email |-> MailBad, password |-> PwShort] }

LoginInputs ==
  { [email |-> MailA, password |-> Pw1],
    [email |-> MailA, password |-> Pw2],
    [email |-> MailAUpper, password |-> Pw1],
    [email |-> MailAPadded, password |-> Pw1],
    [email |-> MailB, password |-> Pw2],
    [email |-> <<>>, password |-> Pw1] }

\* Profile updates: nothing, or one field
UpdateInputs ==
  { [username |-> <<>>, email |-> <<>>, password |-> <<>>],
    [username |-> Amy, email |-> <<>>, password |-> <<>>],
    [username |-> <<>>, email |-> MailAUpper, password |-> <<>>],
    [username |-> <<>>, email |-> <<>>, password |-> Pw2] }

Ids == 1..MaxId

\* the ids a token can carry: those handed out so far
IssuedIds == 1..(currentId - 1)

\* route and GraphQL id arguments
IdParams == {<<Digits[i + 1]>> : i \in Ids} \cup {<<"x">>}

\* ----------------------------------------------------------- specification
\* the database, the callers and the clock before any call
DirectoryInit ==
  /\ users = <<>>
  /\ currentId = 1
  /\ now = 1
  /\ calls = [p \in Procs |-> Idle]
  /\ ncalls = 0
  /\ issued = <<>>
  /\ deleted = {}
  /\ lastPw = [i \in Ids |-> <<>>]
  /\ dateNow = 0
  /\ token = NoToken
  /\ minted = {}
  /\ auth = NoAuth

\* ---------------------------------------------------------------------
\* app.js: the express application and its start-up
\* ---------------------------------------------------------------------

NodeEnvs == {"production", "development", "test"}

Methods == {"GET", "POST"}

\* request paths, as sequences of segments
RequestPaths ==
  { <<>>, <<"graphql">>, <<"api-docs">>, <<"api-docs.json">>,
    <<"api", "health">>, <<"api", "nope">>, <<"nope">> }

NoAnswer == [status |-> 0, by |-> "none"]

\* the path pattern '*' of app.use('*', ...)
Star == <<"*">>

Layer(kind, at, h) == [kind |-> kind, at |-> at, h |-> h]

IsPrefix(pre, path) ==
  /\ Len(pre) <= Len(path)
  /\ \A i \in 1..Len(pre) : pre[i] = path[i]

\* express Router: a use-layer matches a path prefix ('*' and '/' match
\* every path), a get-layer matches the exact path of a GET request; the
\* four-argument error handler is skipped while no error is pending
LayerMatches(layer, method, path) ==
  CASE layer.kind = "use"   -> layer.at = Star \/ IsPrefix(layer.at, path)
    [] layer.kind = "get"   -> method = "GET" /\ layer.at = path
    [] layer.kind = "error" -> FALSE

\* routes/index.js below the mount point /api: GET /health answers 200 and
\* the router's own '*' layer answers 404 'Endpoint not found'
routes(method, rest) ==
  IF method = "GET" /\ rest = <<"health">>
    THEN [status |-> 200, by |-> "API is running"]
    ELSE [status |-> 404, by |-> "Endpoint not found"]

\* what a matching layer does with the request: NoAnswer is next()
Handle(h, method, path) ==
  CASE h \in {"helmet", "cors", "json", "urlencoded", "logger"} -> NoAnswer
    [] h = "swaggerUi"    -> [status |-> 200, by |-> "swaggerUi"]
    [] h = "swaggerSpec"  -> [status |-> 200, by |-> "swaggerSpec"]
    [] h = "root"         -> [status |-> 200, by |-> "Login REST & GraphQL API"]
    [] h = "routes"       -> routes(method, Tail(path))
    [] h = "graphql"      -> [status |-> 200, by |-> "graphql"]
    [] h = "notFound"     -> [status |-> 404, by |-> "Route not found"]

\* express's final handler, reached when no layer answers
FinalHandler == [status |-> 404, by |-> "finalhandler"]

\* app.handle: the layers are tried in the order they were added
RECURSIVE Dispatch(_, _, _)
Dispatch(layers, method, path) ==
  IF layers = <<>> THEN FinalHandler
  ELSE LET layer == Head(layers)
           out == IF LayerMatches(layer, method, path)
                    THEN Handle(layer.h, method, path)
                    ELSE NoAnswer
       IN IF out # NoAnswer THEN out ELSE Dispatch(Tail(layers), method, path)

\* the layers app.js adds while the module is loaded (lines 15-117)
LoadedStack(e) ==
  <<Layer("use", <<>>, "helmet"), Layer("use", <<>>, "cors"),
    Layer("use", <<>>, "json"), Layer("use", <<>>, "urlencoded")>>
  \o (IF e # "production" THEN <<Layer("use", <<>>, "logger")>> ELSE <<>>)
  \o <<Layer("use", <<"api-docs">>, "swaggerUi"),
       Layer("get", <<"api-docs.json">>, "swaggerSpec"),
       Layer("get", <<>>, "root"),
       Layer("use", <<"api">>, "routes"),
       Layer("error", <<>>, "errorHandler")>>

dirvars == <<users, currentId, now, calls, ncalls, issued, deleted, lastPw>>

\* the module script of app.js, run to its end: the middleware is added, the
\* async function behind graphqlPromise runs createServer up to its
\* `await this.server.start()`, the 404 continuation is attached to
\* graphqlPromise, and app.listen is called unless NODE_ENV is 'test'
LoadApp ==
  /\ ~loaded
  /\ loaded' = TRUE
  /\ stack' = LoadedStack(env)
  /\ gql' = "starting"
  /\ listening' = (env # "test")
  /\ UNCHANGED <<env, answer, dirvars, tvars>>

\* the promise of server.start() is fulfilled: createServer returns
StartResolved ==
  /\ gql = "starting"
  /\ gql' = "created"
  /\ UNCHANGED <<env, loaded, stack, listening, answer, dirvars, tvars>>

\* the promise of server.start() is rejected: the catch block of app.js
\* rethrows, graphqlPromise is rejected and its then-callback never runs
StartRejected ==
  /\ gql = "starting"
  /\ gql' = "failed"
  /\ UNCHANGED <<env, loaded, stack, listening, answer, dirvars, tvars>>

\* GraphQLServerManager.applyMiddleware, the continuation of the await in
\* app.js line 57
applyMiddleware ==
  /\ gql = "created"
  /\ stack' = Append(stack, Layer("use", <<"graphql">>, "graphql"))
  /\ gql' = "mounted"
  /\ UNCHANGED <<env, loaded, listening, answer, dirvars, tvars>>

\* the then-callback of graphqlPromise: app.use('*', ...)
ApplyNotFound ==
  /\ gql = "mounted"
  /\ stack' = Append(stack, Layer("use", Star, "notFound"))
  /\ gql' = "ready"
  /\ UNCHANGED <<env, loaded, listening, answer, dirvars, tvars>>

\* the promise continuations that follow the settling of server.start() are
\* microtasks: no request is handled between them
PendingMicrotask == gql \in {"created", "mounted"}

\* a request is taken once the server is bound by app.listen; under
\* NODE_ENV = 'test' the test harness serves the exported app itself
Accepting == loaded /\ (listening \/ env = "test")

Request(method, path) ==
  /\ Accepting
  /\ ~PendingMicrotask
  /\ answer' = [method |-> method, path |-> path] @@ Dispatch(stack, method, path)
  /\ UNCHANGED <<env, loaded, stack, gql, listening, dirvars, tvars>>

\* the express app before app.js has run, with NODE_ENV = e
AppInit(e) ==
  /\ env = e
  /\ loaded = FALSE
  /\ stack = <<>>
  /\ gql = "none"
  /\ listening = FALSE
  /\ answer = NoAnswer

Init == DirectoryInit /\ AppInit("production")

Next ==
  \E p \in Procs :
    \/ (\E userData \in RegisterInputs : StartRegister(p, userData)) /\ UNCHANGED <<tvars, avars>>
    \/ (RegisterAfterEmail(p)) /\ UNCHANGED <<tvars, avars>>
    \/ (RegisterAfterUsername(p)) /\ UNCHANGED <<tvars, avars>>
    \/ (RegisterAfterHash(p)) /\ UNCHANGED <<tvars, avars>>
    \/ (\E credentials \in LoginInputs : StartLogin(p, credentials)) /\ UNCHANGED <<tvars, avars>>
    \/ (LoginAfterFind(p)) /\ UNCHANGED <<tvars, avars>>
    \/ (\E id \in Ids : GetUserById(p, id)) /\ UNCHANGED <<tvars, avars>>
    \/ (GetAllUsers(p)) /\ UNCHANGED <<tvars, avars>>
    \/ (GetStats(p)) /\ UNCHANGED <<tvars, avars>>
    \/ (\E id \in Ids, updateData \in UpdateInputs : StartUpdate(p, id, updateData)) /\ UNCHANGED <<tvars, avars>>
    \/ (UpdateAfterFind(p)) /\ UNCHANGED <<tvars, avars>>
    \/ (UpdateAfterEmail(p)) /\ UNCHANGED <<tvars, avars>>
    \/ (UpdateAfterUsername(p)) /\ UNCHANGED <<tvars, avars>>
    \/ (UpdateAfterHash(p)) /\ UNCHANGED <<tvars, avars>>
    \/ (UpdateSave(p)) /\ UNCHANGED <<tvars, avars>>
    \/ (\E id \in Ids : StartDelete(p, id)) /\ UNCHANGED <<tvars, avars>>
    \/ (DeleteAfterFind(p)) /\ UNCHANGED <<tvars, avars>>
    \/ (\E reqUserId \in IssuedIds, idParam \in IdParams : RestDeleteUser(p, reqUserId, idParam)) /\ UNCHANGED <<tvars, avars>>
    \/ (\E currentUserId \in IssuedIds, idParam \in IdParams : GqlDeleteUser(p, currentUserId, idParam)) /\ UNCHANGED <<tvars, avars>>

Spec == Init /\ [][Next]_vars

\* One client that registers, logs in and presents tokens while the clock
\* runs: the calls of caller 1 through the three register entry points, the
\* token each successful register and login returns, and verifications.
SessionNext ==
  \/ \E t \in ClockValues : Tick(t)
  \/ (ncalls < MaxSession /\ \E userData \in EntryRegisterInputs : StartRegister(1, userData))
       /\ NoMint
  \/ (ncalls < MaxSession /\ \E body \in EntryRegisterInputs : RestRegister(1, body))
       /\ NoMint
  \/ (ncalls < MaxSession /\ \E input \in EntryRegisterInputs : GqlRegister(1, input))
       /\ NoMint
  \/ RegisterAfterEmail(1) /\ NoMint
  \/ RegisterAfterUsername(1) /\ NoMint
  \/ RegisterAfterHash(1) /\ Mint(1)
  \/ (ncalls < MaxSession /\ \E credentials \in EntryLoginInputs : StartLogin(1, credentials))
       /\ NoMint
  \/ LoginAfterFind(1) /\ Mint(1)
  \/ \E tok \in Presented : VerifyToken(tok)
  \/ \E tok \in Presented : AuthenticateToken(Bearer(tok))
  \/ AuthenticateToken(NoHeader)

SessionSpec == Init /\ [][SessionNext]_vars


\* ------------------------------------------------------------- properties
LiveIds == {users[i].id : i \in DOMAIN users}

Done(c, op) == c.op = op /\ c.pc = "done"

\* the current calls of p and q ran concurrently
Overlapped(p, q) == p # q /\ q \in calls[p].conc /\ p \in calls[q].conc

IsValid(c) == validate([username |-> c.username, email |-> c.email, password |-> c.password]) = <<>>

\* C1: of two concurrent register calls with valid inputs whose emails
\* normalise to the same value, exactly one succeeds, the other fails with
\* 'Email is already in use', and the store does not hold both users.
C1_OneOfTwoConcurrentRegistersWins ==
  \A p, q \in Procs :
    ( /\ Overlapped(p, q)
      /\ Done(calls[p], "register") /\ Done(calls[q], "register")
      /\ IsValid(calls[p]) /\ IsValid(calls[q])
      /\ NormEmail(calls[p].email) = NormEmail(calls[q].email) )
    => /\ calls[p].res.ok # calls[q].res.ok
       /\ ~calls[p].res.ok => calls[p].res.err = <<"Error registering user", "Email is already in use">>
       /\ ~({calls[p].res.user.id, calls[q].res.user.id} \subseteq LiveIds)

\* C2: no two live users have emails that are equal after lowercasing and
\* trimming.
C2_NormalizedEmailsUnique ==
  \A i, j \in DOMAIN users :
    i # j => NormEmail(users[i].email) # NormEmail(users[j].email)

\* C3: no two live users have the same stored username.
C3_UsernamesUnique ==
  \A i, j \in DOMAIN users : i # j => users[i].username # users[j].username

\* C4: every id getNextId hands out is greater than every id handed out
\* before it; it is the id of no live user and of no deleted user at that
\* moment, and no two live users ever share an id.
C4_IdsStrictlyIncrease ==
  [][ /\ \A i, j \in DOMAIN users' : i # j => users'[i].id # users'[j].id
      /\ issued' # issued =>
           LET id == issued'[Len(issued')]
           IN /\ issued' = Append(issued, id)
              /\ \A k \in DOMAIN issued : issued[k] < id
              /\ id \notin LiveIds
              /\ id \notin deleted
              /\ Cardinality({i \in DOMAIN users' : users'[i].id = id}) = 1 ]_vars

\* C4 witness: a user was deleted and a later register was given a new id.
C4_Witness ==
  \E d \in deleted : \E i \in DOMAIN users : users[i].id > d /\ d \notin LiveIds

\* the stored password of every live user is the digest of the password of
\* the last successful register or password-carrying updateUserProfile call
\* completed for that user
DigestIsLastAccepted ==
  \A i \in DOMAIN users : bcryptCompare(lastPw[users[i].id], users[i].password)

\* what a login that starts on the database db returns
loginOn(db, credentials) == loginResult(loginLookup(db, credentials), credentials)

\* C5: the stored password of every live user is the digest of the password
\* of the last successful register or password-carrying updateUserProfile
\* call completed for that user: login with the user's email succeeds with
\* that password and fails with any other.
C5_PasswordIsLastAccepted ==
  /\ DigestIsLastAccepted
  /\ \A i \in DOMAIN users : \A password \in {Pw1, Pw2} :
       loginOn(users, [email |-> users[i].email, password |-> password]).ok
         <=> password = lastPw[users[i].id]

\* C6: once deleteUser(id) has succeeded, getUserById(id) fails with 'User not
\* found' and id is in no getAllUsers result.
C6_DeletedStaysDeleted ==
  \A id \in deleted :
    /\ ~getUserByIdResult(users, id).ok
    /\ Includes(getUserByIdResult(users, id).err, "User not found")
    /\ \A k \in DOMAIN getAllUsersResult(users).list : getAllUsersResult(users).list[k].id # id

\* C7: a register call that no other call overlaps, whose input is valid and
\* whose username and normalised email no live user held, succeeds; and in
\* the state it completes in, login with the same email and password finds
\* that user and succeeds with the same id.
C7_RegisterThenLogin ==
  [][ \A p \in Procs :
        ( /\ calls[p].op = "register" /\ InFlight(calls[p])
          /\ calls'[p].pc = "done"
          /\ calls'[p].fresh /\ calls'[p].conc = {} )
        => LET credentials == [email |-> calls'[p].email, password |-> calls'[p].password]
               login == loginOn(users', credentials)
           IN /\ calls'[p].res.ok
              /\ calls'[p].res.user.id \in LiveIds'
              /\ login.ok
              /\ login.user.id = calls'[p].res.user.id ]_vars

\* C7 witness: a second user was registered by a call that nothing overlapped,
\* on a fresh input, and a login with the same email and password returns
\* that user's id.
C7_Witness ==
  \E p \in Procs :
    /\ Done(calls[p], "register") /\ calls[p].fresh /\ calls[p].conc = {} /\ calls[p].res.ok
    /\ Len(users) = 2
    /\ LET login == loginOn(users, [email |-> calls[p].email, password |-> calls[p].password])
       IN login.ok /\ login.user.id = calls[p].res.user.id /\ login.user.id = 2

\* a delete request through an adapter whose target is the requester
SelfDelete(c) == c.op = "deleteUser" /\ c.via \in {"rest", "gql"} /\ c.id = c.req

SelfDeleteRefused(c) ==
  /\ c.pc = "done"
  /\ ~c.res.ok
  /\ ~c.invoked
  /\ c.via = "rest" => c.res.status = 400 /\ c.res.code = "SELF_DELETE_NOT_ALLOWED"
  /\ c.via = "gql" => c.res.code = "ForbiddenError"

\* C8: a delete request whose target id is the requester's id is refused as
\* a self-delete by the REST controller and by the GraphQL resolver, whether
\* or not the requester is a live user; UserService.deleteUser is not
\* invoked and the store does not change.
C8_SelfDeleteRefused ==
  [][ \A p \in Procs :
        SelfDelete(calls'[p]) =>
          /\ SelfDeleteRefused(calls'[p])
          /\ calls'[p] # calls[p] => users' = users /\ currentId' = currentId ]_vars

\* C8 witness: the REST controller has refused the self-delete of a
\* requester that is no longer in the store, while other users are.
C8_Witness ==
  \E p \in Procs :
    /\ SelfDelete(calls[p]) /\ calls[p].via = "rest" /\ SelfDeleteRefused(calls[p])
    /\ calls[p].req \notin LiveIds
    /\ calls[p].req \in deleted
    /\ users # <<>>

FailedLogin(c) ==
  Done(c, "login") /\ c.email # <<>> /\ c.password # <<>> /\ ~c.res.ok

\* C9: with a non-empty email and password, login fails in the same way when
\* no user has the email as when the password is wrong: the same
\* 'Invalid credentials' error, for calls that ran together and for every
\* login that can start on the current store.
C9_LoginFailuresIdentical ==
  /\ \A p, q \in Procs :
       (FailedLogin(calls[p]) /\ FailedLogin(calls[q]) /\ ~calls[p].flag /\ calls[q].flag)
       => /\ calls[p].res = calls[q].res
          /\ calls[p].res.err = <<"Error during login", "Invalid credentials">>
  /\ \A credentials \in LoginInputs :
       (credentials.email # <<>> /\ credentials.password # <<>>)
       => LET login == loginOn(users, credentials)
          IN login.ok \/ login = Fail(<<"Error during login", "Invalid credentials">>)

\* C9 witness: one login failed for an unknown email, the other for a wrong
\* password of a live user.
C9_Witness ==
  \E p, q \in Procs :
    /\ FailedLogin(calls[p]) /\ ~calls[p].flag
    /\ FailedLogin(calls[q]) /\ calls[q].flag
    /\ \E i \in DOMAIN users : users[i].email = NormEmail(calls[q].email)

\* C10: when a login starts with the email of a live user in any letter case,
\* padded or not, and that user's password, it finds the user and succeeds.
\* (Stated for a user that shares its normalised email with no other.)
C10_LoginIgnoresCase ==
  [][ \A p \in Procs : \A i \in DOMAIN users :
        ( /\ ~InFlight(calls[p]) /\ calls'[p] # calls[p] /\ calls'[p].op = "login"
          /\ NormEmail(calls'[p].email) = NormEmail(users[i].email)
          /\ bcryptCompare(calls'[p].password, users[i].password)
          /\ \A j \in DOMAIN users : j # i => NormEmail(users[j].email) # NormEmail(users[i].email) )
        => /\ calls'[p].pc = "l_find"
           /\ loginResult(calls'[p].ex, [email |-> calls'[p].email,
                                         password |-> calls'[p].password]).ok ]_vars


\* p's call ends in this step
Ends(p, op) == calls[p].op = op /\ InFlight(calls[p]) /\ calls'[p].pc = "done"

\* p makes a call that ends in the step that starts it
Atomic(p, op) == ncalls' = ncalls + 1 /\ Done(calls'[p], op)

\* C12: a successful updateUserProfile(id, {username: u}) that no other call
\* overlaps changes only the username of user id: its id, email, digest and
\* createdAt, every other record and the order of the records stay as they
\* were, and the payload is the projection of the new record.
C12_UsernameUpdateFrame ==
  [][ \A p \in Procs :
        ( /\ Ends(p, "updateUserProfile") /\ calls'[p].res.ok /\ calls'[p].conc = {}
          /\ calls[p].username # <<>> /\ calls[p].email = <<>> /\ calls[p].password = <<>> )
        => /\ DOMAIN users' = DOMAIN users
           /\ \A i \in DOMAIN users :
                users'[i] = IF users[i].id = calls[p].id
                            THEN [users[i] EXCEPT !.username = calls[p].username]
                            ELSE users[i]
           /\ calls'[p].res.user = toSafeObject(findUserById(users', calls[p].id)) ]_vars

\* C12 witness: the second of two users was renamed by a call nothing
\* overlapped and still has the email and the digest it registered with.
C12_Witness ==
  \E p \in Procs :
    /\ Done(calls[p], "updateUserProfile") /\ calls[p].res.ok /\ calls[p].conc = {}
    /\ calls[p].username = Amy /\ calls[p].email = <<>> /\ calls[p].password = <<>>
    /\ calls[p].id = 2
    /\ Len(users) = 2
    /\ users[2] = User(2, Amy, MailB, bcryptHash(Pw2), users[2].createdAt)
    /\ users[1].username = Bob

\* C13: whenever getStats is called its totalUsers is the number of live user
\* records at that moment, and in every state that number is the length of
\* the getAllUsers result.
C13_StatsCountsLiveUsers ==
  [][ /\ getStatsResult(users').total = Cardinality(LiveIds')
      /\ Len(getAllUsersResult(users').list) = getStatsResult(users').total
      /\ \A p \in Procs :
           Atomic(p, "getStats") =>
             /\ calls'[p].res.ok
             /\ calls'[p].res.total = Cardinality(LiveIds)
             /\ calls'[p].res.total = Len(getAllUsersResult(users).list) ]_vars

\* C13 witness: getStats answered 1 when one of two registered users had been
\* deleted.
C13_Witness ==
  \E p \in Procs :
    /\ Done(calls[p], "getStats") /\ calls[p].res.total = 1
    /\ Len(issued) = 2 /\ Cardinality(deleted) = 1 /\ Len(users) = 1

\* p's call, of any operation, ends in this step
Completes(p) ==
  /\ calls'[p].pc = "done"
  /\ InFlight(calls[p]) \/ ncalls' = ncalls + 1

\* a user object of a success payload: the four public fields, none of them
\* holding the digest of the record u it is the projection of
IsPublic(o, u) ==
  /\ DOMAIN o = {"id", "username", "email", "createdAt"}
  /\ o.id = u.id /\ o.username = u.username /\ o.email = u.email /\ o.createdAt = u.createdAt
  /\ o.username # u.password /\ o.email # u.password

\* C14: every user object of a success payload of register, login,
\* getUserById, getAllUsers, updateUserProfile and deleteUser has exactly the
\* fields id, username, email and createdAt, and for a call that no other call
\* overlaps their values are those of the stored record (for deleteUser, of
\* the record it removed).
C14_PayloadsArePublic ==
  [][ \A p \in Procs :
        (Completes(p) /\ calls'[p].res.ok) =>
          LET c == calls'[p]
          IN /\ DOMAIN c.res.user = {"id", "username", "email", "createdAt"}
             /\ \A k \in DOMAIN c.res.list :
                  DOMAIN c.res.list[k] = {"id", "username", "email", "createdAt"}
             /\ c.conc = {} =>
                  /\ c.op \in {"register", "updateUserProfile"} =>
                       /\ c.res.user.id \in LiveIds'
                       /\ IsPublic(c.res.user, findUserById(users', c.res.user.id))
                  /\ c.op = "login" =>
                       IsPublic(c.res.user,
                                loginLookup(users, [email |-> c.email, password |-> c.password]))
                  /\ c.op = "getUserById" => IsPublic(c.res.user, findUserById(users, c.id))
                  /\ c.op = "deleteUser" =>
                       /\ c.id \in LiveIds /\ c.id \notin LiveIds'
                       /\ IsPublic(c.res.user, findUserById(users, c.id))
                  /\ c.op = "getAllUsers" =>
                       /\ DOMAIN c.res.list = DOMAIN users
                       /\ \A k \in DOMAIN users : IsPublic(c.res.list[k], users[k]) ]_vars

\* C14 witness: a login returned the projection of a user that had been
\* renamed, whose record holds the digest of its password.
C14_Witness ==
  \E p \in Procs :
    /\ Done(calls[p], "login") /\ calls[p].res.ok /\ calls[p].conc = {}
    /\ calls[p].res.user = [id |-> 1, username |-> Amy, email |-> MailA, createdAt |-> 1]
    /\ findUserById(users, 1).password = bcryptHash(Pw1)

\* some live user's email normalises to the same value as email
EmailHeld(db, email) == \E i \in DOMAIN db : NormEmail(db[i].email) = NormEmail(email)

\* some live user's stored username is the one register would store
UsernameHeld(db, username) == \E i \in DOMAIN db : db[i].username = trim(username)

\* C17: a register call (overlapped by no other call) whose valid input
\* conflicts with live users on both its normalised email and its username
\* fails with 'Email is already in use', and creates no user.
C17_EmailConflictFirst ==
  [][ \A p \in Procs :
        ( /\ Ends(p, "register") /\ calls'[p].conc = {} /\ IsValid(calls[p])
          /\ EmailHeld(users, calls[p].email) /\ UsernameHeld(users, calls[p].username) )
        => /\ ~calls'[p].res.ok
           /\ calls'[p].res.err = <<"Error registering user", "Email is already in use">>
           /\ users' = users /\ currentId' = currentId ]_vars

\* another live user than id holds the email under the rule for emails
\* (equal after lowercasing and trimming)
OtherHoldsEmail(db, id, email) ==
  \E i \in DOMAIN db : db[i].id # id /\ NormEmail(db[i].email) = NormEmail(email)

\* another live user than id has exactly this stored username
OtherHoldsUsername(db, id, username) ==
  \E i \in DOMAIN db : db[i].id # id /\ db[i].username = username

\* C18: an updateUserProfile call (overlapped by no other call) on a live
\* user fails with 'Email is already in use' when its email differs from the
\* user's and another live user holds it, with 'Username is already in use'
\* when (the email being no conflict) its username differs from the user's
\* and another live user holds it, and then changes no record; the user's
\* own current email or username is no conflict.
C18_UpdateConflicts ==
  [][ \A p \in Procs :
        (Ends(p, "updateUserProfile") /\ calls'[p].conc = {} /\ calls[p].id \in LiveIds) =>
          LET c == calls[p]
              current == findUserById(users, c.id)
              emailConflict == /\ c.email # <<>> /\ c.email # current.email
                               /\ OtherHoldsEmail(users, c.id, c.email)
              usernameConflict == /\ c.username # <<>> /\ c.username # current.username
                                  /\ OtherHoldsUsername(users, c.id, c.username)
              res == calls'[p].res
          IN /\ emailConflict =>
                  /\ ~res.ok /\ res.err = <<"Error updating user", "Email is already in use">>
                  /\ users' = users
             /\ (usernameConflict /\ ~emailConflict) =>
                  /\ ~res.ok /\ res.err = <<"Error updating user", "Username is already in use">>
                  /\ users' = users
             /\ (~emailConflict /\ ~usernameConflict) => res.ok ]_vars

\* C19: a deleteUser call (overlapped by no other call) whose target is not
\* in the store fails with 'User not found', which the REST controller
\* answers with 404 and the GraphQL resolver with the error 'User not found',
\* and the store does not change.
C19_DeleteMissingIsNotFound ==
  [][ \A p \in Procs :
        ( /\ Ends(p, "deleteUser") /\ calls'[p].conc = {}
          /\ calls[p].id \notin LiveIds /\ calls[p].id # calls[p].req )
        => /\ ~calls'[p].res.ok
           /\ users' = users /\ currentId' = currentId
           /\ Includes(calls'[p].res.err, "User not found")
           /\ calls[p].via = "rest" => calls'[p].res.status = 404
           /\ calls[p].via = "gql" => calls'[p].res.err = <<"User not found">> ]_vars

\* C11: every successful login returns a token that decodes to the id of the
\* user who logged in and that differs from every token issued earlier for
\* that user, by register or by a previous login.
C11_LoginMintsNewToken ==
  [][ (Ends(1, "login") /\ calls'[1].res.ok) =>
        /\ verifyToken(token', dateNow).ok
        /\ verifyToken(token', dateNow).user.id = calls'[1].res.user.id
        /\ \A m \in minted :
              m.token.payload.id = calls'[1].res.user.id => m.token # token' ]_vars

\* the shape rules of register that the input of the call c breaks
Violated(c) ==
  {r \in {ErrUsername, ErrEmail, ErrPassword} :
     \/ r = ErrUsername /\ Len(trim(c.username)) < 3
     \/ r = ErrEmail /\ ~isValidEmail(c.email)
     \/ r = ErrPassword /\ Len(c.password) < 6}

\* the failure res is a validation error, as each entry point words it
IsValidationError(res) ==
  /\ ~res.ok
  /\ \/ Includes(res.err, "Invalid data")
     \/ Includes(res.err, "Invalid input")
     \/ Includes(res.err, "Invalid input data")

\* C15: a register call whose input breaks several shape rules ends at once
\* with a validation error that lists every broken rule, and neither creates a
\* user nor takes an id.  Through UserService and GraphQL the list holds the
\* broken rules and nothing else: three entries for 'ab', 'bad', '123'.
C15_AllViolationsListed ==
  [][ ( /\ ncalls' = ncalls + 1
        /\ calls'[1].op = "register"
        /\ Cardinality(Violated(calls'[1])) >= 2 ) =>
      ( /\ calls'[1].pc = "done"
        /\ IsValidationError(calls'[1].res)
        /\ \A r \in Violated(calls'[1]) : Includes(calls'[1].res.err, r)
        /\ calls'[1].via \in {"svc", "gql"} =>
              Len(calls'[1].res.err) = 2 + Cardinality(Violated(calls'[1]))
        /\ users' = users
        /\ currentId' = currentId ) ]_vars

\* C15 witness: UserService.register of 'ab', 'bad', '123' on a store that
\* holds a user failed with the three messages, and the store holds that user
\* only.
C15_Witness ==
  /\ Done(calls[1], "register") /\ calls[1].via = "svc"
  /\ calls[1].username = Ab /\ calls[1].email = MailBad /\ calls[1].password = PwShort
  /\ calls[1].res.err =
       <<"Error registering user", "Invalid data", ErrUsername, ErrEmail, ErrPassword>>
  /\ Len(users) = 1 /\ currentId = 2

\* the input of the call c has a password without a lower-case letter, an
\* upper-case letter or a digit, or a username with a character that is not a
\* letter, a digit or an underscore
WeakShape(c) ==
  \/ ~(\E i \in DOMAIN c.password : isLower(c.password[i]))
  \/ ~(\E i \in DOMAIN c.password : isUpper(c.password[i]))
  \/ ~(\E i \in DOMAIN c.password : isDigit(c.password[i]))
  \/ \E i \in DOMAIN c.username :
       ~(isLower(c.username[i]) \/ isUpper(c.username[i]) \/ isDigit(c.username[i])
           \/ c.username[i] = "_")

\* C16: a register call whose password lacks a character class, or whose
\* username has a character outside letters, digits and underscore, ends at
\* once with a validation error and changes no store, through UserService,
\* REST and GraphQL alike.
C16_WeakInputsRejected ==
  [][ ( /\ ncalls' = ncalls + 1
        /\ calls'[1].op = "register"
        /\ WeakShape(calls'[1]) ) =>
      ( /\ calls'[1].pc = "done"
        /\ IsValidationError(calls'[1].res)
        /\ users' = users
        /\ currentId' = currentId ) ]_vars

\* a token was presented and checked in the step just taken
Checked == auth.by \in {"verifyToken", "authenticateToken"} /\ auth.status # 401

\* thirty minutes, in milliseconds
HalfHourMs == ExpiresIn * 1000

\* C20 as stated: a token issued at time t is accepted at every time before
\* t + 30 minutes and rejected with 'Invalid or expired token' at every time
\* after it, by verifyToken and by the middleware; a token that was never
\* issued is rejected at every time.
C20_ThirtyMinutesExact ==
  Checked =>
    /\ \A m \in minted :
          m.token = auth.token =>
            /\ auth.at < m.at + HalfHourMs => auth.ok
            /\ auth.at > m.at + HalfHourMs =>
                  ~auth.ok /\ auth.err = "Invalid or expired token"
    /\ (\A m \in minted : m.token # auth.token) =>
          ~auth.ok /\ auth.err = "Invalid or expired token"

\* C20 amended: the expiry is counted in whole seconds of the clock.  A token
\* issued at time t (milliseconds) is accepted exactly while
\* floor(now / 1000) < floor(t / 1000) + 1800, and decodes to the user it was
\* issued for; from that second on it is rejected with 'Invalid or expired
\* token' (status 403 from the middleware), which can be up to one second
\* before t + 30 minutes.  A token signed with another key, with an edited
\* payload, or malformed is rejected in the same way at every time.
C20_ExpiryInWholeSeconds ==
  Checked =>
    /\ \A m \in minted :
          m.token = auth.token =>
            /\ auth.ok <=> (auth.at \div 1000 < (m.at \div 1000) + 1800)
            /\ auth.ok => auth.user.id = m.token.payload.id /\ auth.status = 0
    /\ (\A m \in minted : m.token # auth.token) => ~auth.ok
    /\ ~auth.ok =>
          /\ auth.err = "Invalid or expired token"
          /\ auth.by = "authenticateToken" => auth.status = 403

\* C20 witness: the middleware refused, 1,800,000 ms after the start, a token
\* issued 900 ms after the start, less than thirty minutes before.
C20_Witness ==
  /\ auth.by = "authenticateToken" /\ auth.at = 1800000
  /\ ~auth.ok /\ auth.status = 403
  /\ \E m \in minted : m.token = auth.token /\ m.at = 900

\* C21: getAllUsers returns the live users, each once, in ascending id order:
\* the ids of the list strictly increase, every listed id was issued and not
\* deleted, and every issued id that was not deleted is listed.
C21_ListInIdOrder ==
  LET list == getAllUsersResult(users).list
  IN /\ \A i, j \in DOMAIN list : i < j => list[i].id < list[j].id
     /\ {list[i].id : i \in DOMAIN list} = (1..(currentId - 1)) \ deleted

\* UserService.register run with no other call in between, on the store db
\* with next id cur at the time clock: whether it succeeds, and the store
\* and next id it leaves
registerAlone(db, cur, clock, userData) ==
  IF validate(userData) # <<>>
       \/ emailExists(db, userData.email)
       \/ usernameExists(db, userData.username)
  THEN [ok |-> FALSE, db |-> db, next |-> cur]
  ELSE LET r == create(db, cur, clock,
                       registerRecord(userData, bcryptHash(userData.password)))
       IN [ok |-> TRUE, db |-> r.db, next |-> r.next]

\* the same request through POST /api/auth/register
restRegisterAlone(db, cur, clock, body) ==
  IF validateRegister(body).errors # <<>>
  THEN [ok |-> FALSE, db |-> db, next |-> cur]
  ELSE registerAlone(db, cur, clock, validateRegister(body).body)

\* the same request through the GraphQL register mutation
gqlRegisterAlone(db, cur, clock, input) ==
  IF validate(input) # <<>>
  THEN [ok |-> FALSE, db |-> db, next |-> cur]
  ELSE registerAlone(db, cur, clock, input)

\* validateLogin followed by validationResult, and the sanitized body
validateLogin(body) ==
  [errors |->
     (IF ~isEmail(trim(body.email)) THEN <<ErrEmail>> ELSE <<>>)
     \o (IF body.password = <<>> THEN <<"Password is required">> ELSE <<>>),
   body |-> [email |-> IF isEmail(trim(body.email)) THEN normalizeEmail(trim(body.email))
                       ELSE trim(body.email),
             password |-> body.password]]

\* POST /api/auth/login on the store db: accepted or not (login writes nothing)
restLoginAlone(db, body) ==
  validateLogin(body).errors = <<>> /\ loginOn(db, validateLogin(body).body).ok

\* the GraphQL login mutation on the store db
gqlLoginAlone(db, input) == loginOn(db, input).ok

\* C22 (register and login): in every reachable store, a register request
\* through REST and the same request through GraphQL are both accepted or
\* both rejected and leave the same store, and a login request through REST
\* and the same request through GraphQL are both accepted or both rejected.
C22_AdaptersAgree ==
  /\ \A x \in EntryRegisterInputs :
       restRegisterAlone(users, currentId, now, x) = gqlRegisterAlone(users, currentId, now, x)
  /\ \A x \in EntryLoginInputs : restLoginAlone(users, x) <=> gqlLoginAlone(users, x)

\* C24: in every state after deleteUser(t) succeeded, no login succeeds as
\* user t (a login with t's email succeeds only as another user, one that
\* registered the email since, and fails with 'Invalid credentials'
\* otherwise), and the profile operation for the id a token of t carries
\* fails with 'User not found'.
C24_DeletedCannotLogIn ==
  /\ \A credentials \in LoginInputs :
       LET login == loginOn(users, credentials)
       IN /\ login.ok => login.user.id \notin deleted
          /\ (~login.ok /\ credentials.email # <<>>) =>
                Includes(login.err, "Invalid credentials")
  /\ \A id \in deleted :
       LET profile == getUserByIdResult(users, id)
       IN ~profile.ok /\ Includes(profile.err, "User not found")

\* the register calls c and d have different stored usernames and different
\* normalised emails
DistinctInputs(c, d) ==
  trim(c.username) # trim(d.username) /\ NormEmail(c.email) # NormEmail(d.email)

\* the register call of p and the register call of q were issued together:
\* each was in flight when the other started, and no call of another
\* operation ran during either
IssuedTogether(p, q) ==
  /\ p # q /\ q \in calls[p].conc /\ p \in calls[q].conc
  /\ calls[p].op = "register" /\ calls[q].op = "register"
  /\ IsValid(calls[p]) /\ IsValid(calls[q])
  /\ calls[p].fresh /\ calls[q].fresh
  /\ calls[p].regOnly /\ calls[q].regOnly
  /\ DistinctInputs(calls[p], calls[q])

\* C25: register calls issued concurrently with valid inputs, pairwise
\* distinct usernames and emails that no live user holds all succeed: each
\* ends with success, takes an id never issued before (so their ids differ),
\* and adds one to getStats().totalUsers; once both have completed the two
\* ids differ.
C25_ConcurrentRegistersAllSucceed ==
  /\ [][ \A p, q \in Procs :
           (Ends(p, "register") /\ IssuedTogether(p, q)) =>
             /\ calls'[p].res.ok
             /\ \A k \in DOMAIN issued : issued[k] # calls'[p].res.user.id
             /\ findUserById(users', calls'[p].res.user.id) # NoUser
             /\ getStatsResult(users').total = getStatsResult(users).total + 1 ]_vars
  /\ [](\A p, q \in Procs :
          (IssuedTogether(p, q) /\ calls[p].pc = "done" /\ calls[q].pc = "done") =>
            /\ calls[p].res.ok /\ calls[q].res.ok
            /\ calls[p].res.user.id # calls[q].res.user.id)

\* C25 witness: two registers issued together have both completed, and the
\* store, empty before, holds two users.
C25_Witness ==
  /\ IssuedTogether(1, 2)
  /\ calls[1].pc = "done" /\ calls[2].pc = "done"
  /\ calls[1].res.ok /\ calls[2].res.ok
  /\ getStatsResult(users).total = 2

\* C26: a delete request whose token was issued to a user deleted before the
\* request (no other call ran during it) does not change the store and does
\* not succeed, through REST and through GraphQL.
C26_DeletedTokenChangesNothing ==
  [][ \A p \in Procs :
        ( /\ Ends(p, "deleteUser")
          /\ calls[p].via \in {"rest", "gql"}
          /\ calls[p].req \in deleted
          /\ calls'[p].conc = {} ) =>
        ( users' = users /\ ~calls'[p].res.ok ) ]_vars

\* p's update changed the username only, q's the email or the password only,
\* of the same user; the two calls ran concurrently and both succeeded
BothUpdated(p, q) ==
  /\ Overlapped(p, q)
  /\ Done(calls[p], "updateUserProfile") /\ Done(calls[q], "updateUserProfile")
  /\ calls[p].res.ok /\ calls[q].res.ok
  /\ calls[p].id = calls[q].id
  /\ calls[p].username # <<>> /\ calls[p].email = <<>> /\ calls[p].password = <<>>
  /\ calls[q].username = <<>> /\ (calls[q].email = <<>>) # (calls[q].password = <<>>)

DeletedTogether(p, q) ==
  /\ Overlapped(p, q)
  /\ calls[p].op = "deleteUser" /\ calls[q].op = "deleteUser"
  /\ calls[p].id = calls[q].id
  /\ calls[p].fresh /\ calls[q].fresh

\* C28: of two concurrent deleteUser calls for the same existing id exactly
\* one returns the projection of the deleted user and the other fails.  The
\* call that succeeds removes that record and nothing else; the call that
\* fails leaves the store as it is.
C28_ConcurrentDeletesOneWins ==
  /\ [](\A p, q \in Procs :
          (DeletedTogether(p, q) /\ calls[p].pc = "done" /\ calls[q].pc = "done") =>
            /\ calls[p].res.ok # calls[q].res.ok
            /\ calls[p].res.ok => calls[p].res.user.id = calls[p].id
            /\ findUserById(users, calls[p].id) = NoUser)
  /\ [][ \A p, q \in Procs :
           (Ends(p, "deleteUser") /\ DeletedTogether(p, q)) =>
             IF calls'[p].res.ok
             THEN /\ findUserById(users, calls[p].id) # NoUser
                  /\ users' = SelectSeq(users, LAMBDA u : u.id # calls[p].id)
             ELSE users' = users ]_vars

\* C28 witness: two deletes of user 1 ran concurrently while user 2 was in
\* the store; the first returned user 1 and the second failed, and user 2 is
\* what is left.
C28_Witness ==
  /\ DeletedTogether(1, 2)
  /\ calls[1].pc = "done" /\ calls[2].pc = "done"
  /\ calls[1].res.ok /\ calls[1].res.user.id = 1 /\ ~calls[2].res.ok
  /\ Len(users) = 1 /\ users[1].id = 2

\* C29: a register call that fails changes neither the store nor the id
\* counter, and a register call that succeeds receives the id that follows
\* the number of registers that succeeded before it: the ids issued so far
\* are 1, 2, ..., k in that order and the counter stands at k + 1.
C29_FailedRegisterTakesNoId ==
  /\ [](/\ \A k \in DOMAIN issued : issued[k] = k
        /\ currentId = Len(issued) + 1)
  /\ [][ \A p \in Procs :
           (calls'[p].op = "register" /\ Completes(p)) =>
             IF calls'[p].res.ok
             THEN /\ calls'[p].res.user.id = Len(issued) + 1
                  /\ issued' = Append(issued, Len(issued) + 1)
             ELSE /\ users' = users
                  /\ currentId' = currentId
                  /\ issued' = issued ]_vars

\* C29 witness: a register has failed on an email conflict with user 1; the
\* store still holds user 1 alone and the counter still stands at 2.
C29_Witness ==
  \E p \in Procs :
    /\ Done(calls[p], "register") /\ ~calls[p].res.ok
    /\ Includes(calls[p].res.err, "Email is already in use")
    /\ Len(users) = 1 /\ issued = <<1>> /\ currentId = 2

\* ---------------------------------------------------------------------
\* The start-up of the express app, for every NODE_ENV
\* ---------------------------------------------------------------------

StartupInit == DirectoryInit /\ \E e \in NodeEnvs : AppInit(e)

StartupNext ==
  \/ LoadApp
  \/ StartResolved
  \/ StartRejected
  \/ applyMiddleware
  \/ ApplyNotFound
  \/ \E method \in Methods, path \in RequestPaths : Request(method, path)

StartupSpec == StartupInit /\ [][StartupNext]_vars

\* the /graphql middleware is in the stack
Mounted == \E i \in 1..Len(stack) : stack[i].h = "graphql"

\* C30: whenever the app takes requests the GraphQL server has been created
\* and its middleware is mounted at /graphql; the 'Route not found' handler
\* is in the stack only behind that middleware; and no request to /graphql
\* has been answered 404.
C30_ListenAfterGraphQLMount ==
  /\ Accepting => (gql \in {"mounted", "ready"} /\ Mounted)
  /\ \A i \in 1..Len(stack) :
       stack[i].h = "notFound" => \E j \in 1..(i - 1) : stack[j].h = "graphql"
  /\ (answer # NoAnswer /\ answer.path = <<"graphql">>) => answer.status # 404

\* ---------------------------------------------------------------------
\* Protected operations: the routes behind authenticateToken and the
\* resolvers that call requireAuth
\* ---------------------------------------------------------------------

\* GraphQLContext.createContext at the time t: context.user is the decoded
\* claims when the header carries a token that verifies, else null
createContext(header, t) ==
  IF ~header.present
  THEN [NoAuth EXCEPT !.by = "createContext", !.at = t]
  ELSE LET decoded == verifyToken(header.token, t)
       IN IF decoded.ok
          THEN [NoAuth EXCEPT !.by = "createContext", !.present = TRUE,
                              !.token = header.token, !.at = t,
                              !.ok = TRUE, !.user = decoded.user]
          ELSE [NoAuth EXCEPT !.by = "createContext", !.present = TRUE,
                              !.token = header.token, !.at = t]

\* requireAuth(context): `if (!context.user) throw new AuthenticationError(...)`
\* what it throws, or the user it returns
requireAuth(context) ==
  IF ~context.ok
  THEN [ok |-> FALSE, user |-> NoClaims,
        thrown |-> [Fail(<<"Authentication required">>) EXCEPT !.code = "AuthenticationError"]]
  ELSE [ok |-> TRUE, user |-> context.user, thrown |-> NoResult]

\* the answer of authenticateToken when it does not call next()
Refusal(a) ==
  [Fail(<<a.err>>) EXCEPT !.status = a.status,
                          !.code = IF a.status = 401 THEN "UNAUTHORIZED" ELSE "FORBIDDEN"]

NoUpdate == [username |-> <<>>, email |-> <<>>, password |-> <<>>]

\* requests to the routes of /api/users
UsersRequests ==
  {[op |-> "getProfile", idParam |-> <<>>, body |-> NoUpdate],
   [op |-> "getAllUsers", idParam |-> <<>>, body |-> NoUpdate]}
  \cup {[op |-> "updateProfile", idParam |-> <<>>, body |-> b] : b \in UpdateInputs}
  \cup {[op |-> o, idParam |-> i, body |-> NoUpdate] :
          o \in {"getUserById", "deleteUser"}, i \in IdParams}

\* GraphQL operations that call requireAuth
GqlRequests ==
  {[op |-> o, idParam |-> <<>>, body |-> NoUpdate] : o \in {"me", "users", "stats"}}
  \cup {[op |-> "updateProfile", idParam |-> <<>>, body |-> b] : b \in UpdateInputs}
  \cup {[op |-> o, idParam |-> i, body |-> NoUpdate] :
          o \in {"user", "deleteUser"}, i \in IdParams}

\* the step of a request leaves the token variables as a verification does
Gate(a) ==
  /\ auth' = a
  /\ token' = NoToken
  /\ UNCHANGED <<dateNow, minted, avars>>

\* a route of /api/users: authenticateToken, then the controller
RestUsersRoute(p, header, r) ==
  LET a == authenticateToken(header, dateNow)
  IN /\ Gate(a)
     /\ IF ~a.ok
        THEN Answer(p, [Idle EXCEPT !.op = r.op, !.via = "rest", !.idParam = r.idParam],
                    Refusal(a))
        ELSE \/ r.op = "getProfile" /\ RestGetProfile(p, a.user.id)
             \/ r.op = "updateProfile" /\ RestUpdateProfile(p, a.user.id, r.body)
             \/ r.op = "getAllUsers" /\ RestGetAllUsers(p, a.user.id)
             \/ r.op = "getUserById" /\ RestGetUserById(p, a.user.id, r.idParam)
             \/ r.op = "deleteUser" /\ RestDeleteUser(p, a.user.id, r.idParam)

\* GET /api/stats: router.get('/', authenticateToken, ...)
RestStatsRoute(p, header) ==
  LET a == authenticateToken(header, dateNow)
  IN /\ Gate(a)
     /\ IF ~a.ok
        THEN Answer(p, [Idle EXCEPT !.op = "getStats", !.via = "rest"], Refusal(a))
        ELSE RestGetStats(p, a.user.id)

\* a GraphQL operation: the context is built from the request, the resolver
\* calls requireAuth before anything else
GqlRequest(p, header, r) ==
  LET context == createContext(header, dateNow)
      user == requireAuth(context)
  IN /\ Gate(context)
     /\ IF ~user.ok
        THEN Answer(p, [Idle EXCEPT !.op = r.op, !.via = "gql", !.idParam = r.idParam],
                    user.thrown)
        ELSE \/ r.op = "me" /\ GqlMe(p, user.user.id)
             \/ r.op = "updateProfile" /\ GqlUpdateProfile(p, user.user.id, r.body)
             \/ r.op = "users" /\ GqlUsers(p, user.user.id)
             \/ r.op = "user" /\ GqlUser(p, user.user.id, r.idParam)
             \/ r.op = "deleteUser" /\ GqlDeleteUser(p, user.user.id, r.idParam)
             \/ r.op = "stats" /\ GqlStats(p, user.user.id)

\* what the client of GateSpec registers: two accounts
GateRegisterInputs ==
  { [username |-> Bob, email |-> MailA, password |-> Pw1],
    [username |-> Amy, email |-> MailB, password |-> Pw2] }

\* Date.now() when the tokens of the first second have expired
GateClock == {1800000}

\* the headers a client can send
Headers == {NoHeader} \cup {Bearer(tok) : tok \in Presented}

\* One client that registers accounts and then sends requests for the
\* protected operations over REST and GraphQL, with and without tokens,
\* before and after the tokens expire.
GateNext ==
  \/ \E t \in GateClock : Tick(t)
  \/ (ncalls < MaxGate /\ \E userData \in GateRegisterInputs : StartRegister(1, userData))
       /\ NoMint
  \/ RegisterAfterEmail(1) /\ NoMint
  \/ RegisterAfterUsername(1) /\ NoMint
  \/ RegisterAfterHash(1) /\ Mint(1)
  \/ (ncalls < MaxGate /\ \E header \in Headers, r \in UsersRequests : RestUsersRoute(1, header, r))
  \/ (ncalls < MaxGate /\ \E header \in Headers : RestStatsRoute(1, header))
  \/ (ncalls < MaxGate /\ \E header \in Headers, r \in GqlRequests : GqlRequest(1, header, r))
  \/ UpdateAfterFind(1) /\ NoMint
  \/ UpdateAfterEmail(1) /\ NoMint
  \/ UpdateAfterUsername(1) /\ NoMint
  \/ UpdateAfterHash(1) /\ NoMint
  \/ UpdateSave(1) /\ NoMint
  \/ DeleteAfterFind(1) /\ NoMint

GateSpec == Init /\ [][GateNext]_vars

\* the token was issued by the service and has not expired at the time t
Genuine(tok, t) ==
  /\ \E m \in minted : m.token = tok
  /\ t \div 1000 < tok.payload.exp

\* the step is a request for a protected operation
GateStep == auth'.by \in {"authenticateToken", "createContext"}

\* C23: a request for a protected operation that bears no token, or a token
\* that the service did not issue or that has expired, is answered in that
\* step without the operation being invoked and without any data of the
\* store, and leaves the store as it was: REST answers 401 when the token is
\* missing and 403 otherwise, GraphQL fails with 'Authentication required'.
C23_ProtectedNeedsToken ==
  [][ (GateStep /\ ~(auth'.present /\ Genuine(auth'.token, dateNow)))
        => /\ calls'[1].pc = "done"
           /\ ~calls'[1].invoked
           /\ ~calls'[1].res.ok
           /\ calls'[1].res.user = NoSafe /\ calls'[1].res.list = <<>>
           /\ calls'[1].res.total = 0
           /\ UNCHANGED <<users, currentId, now, issued, deleted, lastPw>>
           /\ (auth'.by = "authenticateToken"
                 => /\ calls'[1].via = "rest"
                    /\ calls'[1].res.status = IF auth'.present THEN 403 ELSE 401)
           /\ (auth'.by = "createContext"
                 => /\ calls'[1].via = "gql"
                    /\ calls'[1].res.err = <<"Authentication required">>) ]_vars

\* requests have been refused for an expired token while an account is in
\* the store: the state after a REST request answered 403
C23_Witness ==
  /\ auth.by = "authenticateToken" /\ auth.present
  /\ \E m \in minted : m.token = auth.token
  /\ dateNow = 1800000
  /\ Len(users) > 0
  /\ calls[1].pc = "done" /\ calls[1].via = "rest" /\ calls[1].op = "deleteUser"
  /\ calls[1].res.status = 403
====
